---- MODULE Spec2Model ----
(***************************************************************************)
(* Setlist navigation of the PDF manager: Setlist, SetlistManager          *)
(* (src/src/setlist_gen.cpp) driving a PdfViewer (src/src/pdf_viewer.cpp), *)
(* with the callers of src/src/main.cpp.                                   *)
(*                                                                         *)
(* A std::string is a sequence of one-character strings.  A vector index   *)
(* of the code is zero-based: element i of a vector is element i + 1 of    *)
(* the sequence that models it.  The zoom level and the OpenGL texture of  *)
(* the viewer are rendering resources no navigation decision reads; they   *)
(* are left out.                                                           *)
(***************************************************************************)
EXTENDS Integers, Sequences, FiniteSets, TLC

(***************************************************************************)
(* Bounds of the model.                                                    *)
(***************************************************************************)
\* CreateSetlist is called while there are fewer setlists than this
MaxSetlists == 2

\* AddItem is called while the setlists hold fewer items than this in all
MaxItems == 2

\* a saved setlist that a session plays has at most this many items
MaxSessionItems == 3

\* a setlist whose item operations are checked has at most this many items
MaxListItems == 3

\* a collection that is saved and loaded has at most this many setlists
MaxSavedSetlists == 2

(***************************************************************************)
(* The files of the library folder: PdfEntry{filename, fullPath}.          *)
(* A has three pages and B two.  Z, a file outside the folder that saved   *)
(* setlists name, is a document PDFium opens and reports zero pages for.   *)
(***************************************************************************)
PathA == <<"/", "A">>

PathB == <<"/", "B">>

PathZ == <<"/", "Z">>

PageCountOf(filepath) ==
    CASE filepath = PathA -> 3
      [] filepath = PathB -> 2
      [] OTHER -> 0

\* size_t lastSlash = filepath.find_last_of("/\\"), as a position (0: npos)
FindLastSlash(filepath) ==
    LET at == {i \in 1..Len(filepath) : filepath[i] \in {"/", "\\"}}
    IN  IF at = {} THEN 0 ELSE CHOOSE i \in at : \A j \in at : j <= i

FilenameOf(filepath) ==
    SubSeq(filepath, FindLastSlash(filepath) + 1, Len(filepath))

PdfEntry(fullPath) == [filename |-> FilenameOf(fullPath), fullPath |-> fullPath]

LibraryFiles == {PdfEntry(PathA), PdfEntry(PathB)}

(***************************************************************************)
(* PdfViewer.  m_document is the path the open document was loaded from,   *)
(* NullDoc when no document is open.                                       *)
(***************************************************************************)
NullDoc == <<>>

NewViewer ==
    [m_document |-> NullDoc, m_currentPage |-> 0, m_pageCount |-> 0,
     m_needsRender |-> FALSE, m_filename |-> <<>>]

IsLoaded(v) == v.m_document # NullDoc

\* mutant: the last page but one counts as the last
ViewerCanGoNext_OffByOne(v) == v.m_currentPage < v.m_pageCount - 2

ViewerCanGoNext(v) == v.m_currentPage < v.m_pageCount - 1

ViewerCanGoPrevious(v) == v.m_currentPage > 0

Close(v) ==
    [m_document |-> NullDoc, m_currentPage |-> 0, m_pageCount |-> 0,
     m_needsRender |-> FALSE, m_filename |-> <<>>]

\* mutant: the new document opens on the page the viewer was on
Load_KeepsPage(v, filepath, ok) ==
    LET closed == Close(v)
    IN  IF ~ok \/ filepath = <<>>
        THEN [viewer |-> closed, ret |-> FALSE]
        ELSE [viewer |-> [m_document |-> filepath,
                          m_currentPage |-> v.m_currentPage,
                          m_pageCount |-> PageCountOf(filepath),
                          m_needsRender |-> TRUE,
                          m_filename |-> FilenameOf(filepath)],
              ret |-> TRUE]

\* ok: the file opens, is read and PDFium accepts it.  The empty path never opens.
Load(v, filepath, ok) ==
    LET closed == Close(v)
    IN  IF ~ok \/ filepath = <<>>
        THEN [viewer |-> closed, ret |-> FALSE]
        ELSE [viewer |-> [m_document |-> filepath,
                          m_currentPage |-> 0,
                          m_pageCount |-> PageCountOf(filepath),
                          m_needsRender |-> TRUE,
                          m_filename |-> FilenameOf(filepath)],
              ret |-> TRUE]

\* mutant: the viewer jumps to the last page
NextPage_ToLastPage(v) ==
    IF ViewerCanGoNext(v)
    THEN [v EXCEPT !.m_currentPage = v.m_pageCount - 1, !.m_needsRender = TRUE]
    ELSE v

NextPage(v) ==
    IF ViewerCanGoNext(v)
    THEN [v EXCEPT !.m_currentPage = v.m_currentPage + 1, !.m_needsRender = TRUE]
    ELSE v

\* mutant: the viewer jumps to the first page
PreviousPage_ToFirstPage(v) ==
    IF ViewerCanGoPrevious(v)
    THEN [v EXCEPT !.m_currentPage = 0, !.m_needsRender = TRUE]
    ELSE v

PreviousPage(v) ==
    IF ViewerCanGoPrevious(v)
    THEN [v EXCEPT !.m_currentPage = v.m_currentPage - 1, !.m_needsRender = TRUE]
    ELSE v

\* mutant: a page past the end is clamped to the last page
GoToPage_Clamps(v, page) ==
    LET target == IF page >= v.m_pageCount THEN v.m_pageCount - 1 ELSE page
    IN  IF target >= 0 /\ target # v.m_currentPage
        THEN [v EXCEPT !.m_currentPage = target, !.m_needsRender = TRUE]
        ELSE v

GoToPage(v, page) ==
    IF page >= 0 /\ page < v.m_pageCount /\ page # v.m_currentPage
    THEN [v EXCEPT !.m_currentPage = page, !.m_needsRender = TRUE]
    ELSE v

Update(v) ==
    IF v.m_needsRender /\ IsLoaded(v)
    THEN [v EXCEPT !.m_needsRender = FALSE]
    ELSE v

(***************************************************************************)
(* Setlist: [m_name, m_items], m_items a sequence of SetlistItem           *)
(* [name, fullPath].  Each operation gives the setlist after the call and  *)
(* the value returned.                                                     *)
(***************************************************************************)
NewSetlist(name) == [m_name |-> name, m_items |-> <<>>]

GetItemCount(sl) == Len(sl.m_items)

\* vector::erase(begin() + index)
Erase(s, index) == SubSeq(s, 1, index) \o SubSeq(s, index + 2, Len(s))

\* vector::insert(begin() + index, x)
Insert(s, index, x) == SubSeq(s, 1, index) \o <<x>> \o SubSeq(s, index + 1, Len(s))

\* mutant: a path already in the setlist is refused
AddItem_RejectsDuplicate(sl, name, fullPath) ==
    IF fullPath = <<>> \/ \E i \in 1..Len(sl.m_items) : sl.m_items[i].fullPath = fullPath
    THEN [setlist |-> sl, ret |-> FALSE]
    ELSE [setlist |-> [sl EXCEPT !.m_items =
                           Append(sl.m_items, [name |-> name, fullPath |-> fullPath])],
          ret |-> TRUE]

\* mutant: the item is put in front
AddItem_Prepends(sl, name, fullPath) ==
    IF fullPath = <<>>
    THEN [setlist |-> sl, ret |-> FALSE]
    ELSE [setlist |-> [sl EXCEPT !.m_items =
                           <<[name |-> name, fullPath |-> fullPath]>> \o sl.m_items],
          ret |-> TRUE]

\* mutant: an entry without a path is added like any other
AddItem_AcceptsEmptyPath(sl, name, fullPath) ==
    [setlist |-> [sl EXCEPT !.m_items =
                      Append(sl.m_items, [name |-> name, fullPath |-> fullPath])],
     ret |-> TRUE]

AddItem(sl, name, fullPath) ==
    IF fullPath = <<>>
    THEN [setlist |-> sl, ret |-> FALSE]
    ELSE [setlist |-> [sl EXCEPT !.m_items =
                           Append(sl.m_items, [name |-> name, fullPath |-> fullPath])],
          ret |-> TRUE]

\* mutant: the first item is the one removed
RemoveItem_DropsFirst(sl, index) ==
    IF index >= Len(sl.m_items)
    THEN [setlist |-> sl, ret |-> FALSE]
    ELSE [setlist |-> [sl EXCEPT !.m_items = Tail(sl.m_items)], ret |-> TRUE]

RemoveItem(sl, index) ==
    IF index >= Len(sl.m_items)
    THEN [setlist |-> sl, ret |-> FALSE]
    ELSE [setlist |-> [sl EXCEPT !.m_items = Erase(sl.m_items, index)], ret |-> TRUE]

\* mutant: the target index is taken in the sequence before the removal
MoveItem_AdjustsTarget(sl, fromIndex, toIndex) ==
    IF fromIndex >= Len(sl.m_items) \/ toIndex >= Len(sl.m_items)
    THEN [setlist |-> sl, ret |-> FALSE]
    ELSE IF fromIndex = toIndex
    THEN [setlist |-> sl, ret |-> TRUE]
    ELSE LET item == sl.m_items[fromIndex + 1]
             target == IF fromIndex < toIndex THEN toIndex - 1 ELSE toIndex
         IN  [setlist |-> [sl EXCEPT !.m_items =
                               Insert(Erase(sl.m_items, fromIndex), target, item)],
              ret |-> TRUE]

MoveItem(sl, fromIndex, toIndex) ==
    IF fromIndex >= Len(sl.m_items) \/ toIndex >= Len(sl.m_items)
    THEN [setlist |-> sl, ret |-> FALSE]
    ELSE IF fromIndex = toIndex
    THEN [setlist |-> sl, ret |-> TRUE]
    ELSE LET item == sl.m_items[fromIndex + 1]
         IN  [setlist |-> [sl EXCEPT !.m_items =
                               Insert(Erase(sl.m_items, fromIndex), toIndex, item)],
              ret |-> TRUE]

Clear(sl) == [sl EXCEPT !.m_items = <<>>]

(***************************************************************************)
(* SetlistManager: [m_setlists, m_activeSetlistIndex, m_activeItemIndex],  *)
(* the two indices -1 when unset.  An operation that takes the viewer      *)
(* gives the manager and the viewer after the call, the value returned and *)
(* the viewer's mutating calls it made, in order.                          *)
(***************************************************************************)
NewManager ==
    [m_setlists |-> <<>>, m_activeSetlistIndex |-> -1, m_activeItemIndex |-> -1]

Result(m, v, ret, calls) == [m |-> m, v |-> v, ret |-> ret, calls |-> calls]

Digit(d) == <<"0", "1", "2", "3", "4", "5", "6", "7", "8", "9">>[d + 1]

\* std::to_string of a size_t
RECURSIVE to_string(_)
to_string(n) ==
    IF n < 10 THEN <<Digit(n)>> ELSE to_string(n \div 10) \o <<Digit(n % 10)>>

SetlistPrefix == <<"S", "e", "t", "l", "i", "s", "t", " ">>

\* mutant: the generated name carries the count before the call
CreateSetlist_NumbersFromCount(m, name) ==
    LET finalName == IF name = <<>>
                     THEN SetlistPrefix \o to_string(Len(m.m_setlists))
                     ELSE name
        after == Append(m.m_setlists, NewSetlist(finalName))
    IN  [m |-> [m EXCEPT !.m_setlists = after], ret |-> Len(after) - 1]

CreateSetlist(m, name) ==
    LET finalName == IF name = <<>>
                     THEN SetlistPrefix \o to_string(Len(m.m_setlists) + 1)
                     ELSE name
        after == Append(m.m_setlists, NewSetlist(finalName))
    IN  [m |-> [m EXCEPT !.m_setlists = after], ret |-> Len(after) - 1]

IsActive(m) == m.m_activeSetlistIndex >= 0

\* mutant: only the setlist index is cleared
Deactivate_KeepsItem(m) == [m EXCEPT !.m_activeSetlistIndex = -1]

\* mutant: deactivating also drops the setlists
Deactivate_ClearsSetlists(m) ==
    [m EXCEPT !.m_activeSetlistIndex = -1, !.m_activeItemIndex = -1,
              !.m_setlists = <<>>]

Deactivate(m) == [m EXCEPT !.m_activeSetlistIndex = -1, !.m_activeItemIndex = -1]

\* mutant: the active setlist is removed without deactivating
RemoveSetlist_KeepsActive(m, index) ==
    IF index >= Len(m.m_setlists)
    THEN [m |-> m, ret |-> FALSE]
    ELSE LET m1 == IF index < m.m_activeSetlistIndex
                   THEN [m EXCEPT !.m_activeSetlistIndex = m.m_activeSetlistIndex - 1]
                   ELSE m
         IN  [m |-> [m1 EXCEPT !.m_setlists = Erase(m.m_setlists, index)],
              ret |-> TRUE]

\* mutant: the active index is not decremented
RemoveSetlist_NoDecrement(m, index) ==
    IF index >= Len(m.m_setlists)
    THEN [m |-> m, ret |-> FALSE]
    ELSE LET m1 == IF index = m.m_activeSetlistIndex THEN Deactivate(m) ELSE m
         IN  [m |-> [m1 EXCEPT !.m_setlists = Erase(m.m_setlists, index)],
              ret |-> TRUE]

RemoveSetlist(m, index) ==
    IF index >= Len(m.m_setlists)
    THEN [m |-> m, ret |-> FALSE]
    ELSE LET m1 == IF index = m.m_activeSetlistIndex
                   THEN Deactivate(m)
                   ELSE IF index < m.m_activeSetlistIndex
                   THEN [m EXCEPT !.m_activeSetlistIndex = m.m_activeSetlistIndex - 1]
                   ELSE m
         IN  [m |-> [m1 EXCEPT !.m_setlists = Erase(m.m_setlists, index)],
              ret |-> TRUE]

\* GetActiveSetlist() != nullptr
HasActiveSetlist(m) ==
    ~(m.m_activeSetlistIndex < 0 \/ m.m_activeSetlistIndex >= Len(m.m_setlists))

\* *GetActiveSetlist(), where it is not null
GetActiveSetlist(m) == m.m_setlists[m.m_activeSetlistIndex + 1]

\* mutant: a successful load does not move the item index
LoadActiveItem_KeepsIndex(m, v, itemIndex, ok) ==
    IF ~HasActiveSetlist(m)
    THEN Result(m, v, FALSE, <<>>)
    ELSE IF itemIndex < 0 \/ itemIndex >= GetItemCount(GetActiveSetlist(m))
    THEN Result(m, v, FALSE, <<>>)
    ELSE LET item == GetActiveSetlist(m).m_items[itemIndex + 1]
             r == Load(v, item.fullPath, ok)
         IN  Result(m, r.viewer, r.ret, <<"Load">>)

\* mutant: the item index is set before the load is tried
LoadActiveItem_SetsIndexFirst(m, v, itemIndex, ok) ==
    IF ~HasActiveSetlist(m)
    THEN Result(m, v, FALSE, <<>>)
    ELSE IF itemIndex < 0 \/ itemIndex >= GetItemCount(GetActiveSetlist(m))
    THEN Result(m, v, FALSE, <<>>)
    ELSE LET item == GetActiveSetlist(m).m_items[itemIndex + 1]
             r == Load(v, item.fullPath, ok)
         IN  Result([m EXCEPT !.m_activeItemIndex = itemIndex],
                    r.viewer, r.ret, <<"Load">>)

LoadActiveItem(m, v, itemIndex, ok) ==
    IF ~HasActiveSetlist(m)
    THEN Result(m, v, FALSE, <<>>)
    ELSE IF itemIndex < 0 \/ itemIndex >= GetItemCount(GetActiveSetlist(m))
    THEN Result(m, v, FALSE, <<>>)
    ELSE LET item == GetActiveSetlist(m).m_items[itemIndex + 1]
             r == Load(v, item.fullPath, ok)
         IN  IF ~r.ret
             THEN Result(m, r.viewer, FALSE, <<"Load">>)
             ELSE Result([m EXCEPT !.m_activeItemIndex = itemIndex],
                         r.viewer, TRUE, <<"Load">>)

\* mutant: the indices are not restored when the load fails
ActivateSetlist_NoRollback(m, v, index, ok) ==
    IF index >= Len(m.m_setlists)
    THEN Result(m, v, FALSE, <<>>)
    ELSE IF GetItemCount(m.m_setlists[index + 1]) = 0
    THEN Result(m, v, FALSE, <<>>)
    ELSE LET m1 == [m EXCEPT !.m_activeSetlistIndex = index, !.m_activeItemIndex = 0]
             r == LoadActiveItem(m1, v, m1.m_activeItemIndex, ok)
         IN  Result(r.m, r.v, r.ret, r.calls)

\* mutant: the item index is not set to 0 before the load
ActivateSetlist_KeepsItem(m, v, index, ok) ==
    IF index >= Len(m.m_setlists)
    THEN Result(m, v, FALSE, <<>>)
    ELSE IF GetItemCount(m.m_setlists[index + 1]) = 0
    THEN Result(m, v, FALSE, <<>>)
    ELSE LET previousSetlist == m.m_activeSetlistIndex
             previousItem == m.m_activeItemIndex
             m1 == [m EXCEPT !.m_activeSetlistIndex = index]
             r == LoadActiveItem(m1, v, m1.m_activeItemIndex, ok)
         IN  IF ~r.ret
             THEN Result([r.m EXCEPT !.m_activeSetlistIndex = previousSetlist,
                                     !.m_activeItemIndex = previousItem],
                         r.v, FALSE, r.calls)
             ELSE Result(r.m, r.v, TRUE, r.calls)

\* mutant: an empty setlist ends the active session
ActivateSetlist_DeactivatesOnEmpty(m, v, index, ok) ==
    IF index >= Len(m.m_setlists)
    THEN Result(m, v, FALSE, <<>>)
    ELSE IF GetItemCount(m.m_setlists[index + 1]) = 0
    THEN Result(Deactivate(m), v, FALSE, <<>>)
    ELSE LET previousSetlist == m.m_activeSetlistIndex
             previousItem == m.m_activeItemIndex
             m1 == [m EXCEPT !.m_activeSetlistIndex = index, !.m_activeItemIndex = 0]
             r == LoadActiveItem(m1, v, m1.m_activeItemIndex, ok)
         IN  IF ~r.ret
             THEN Result([r.m EXCEPT !.m_activeSetlistIndex = previousSetlist,
                                     !.m_activeItemIndex = previousItem],
                         r.v, FALSE, r.calls)
             ELSE Result(r.m, r.v, TRUE, r.calls)

ActivateSetlist(m, v, index, ok) ==
    IF index >= Len(m.m_setlists)
    THEN Result(m, v, FALSE, <<>>)
    ELSE IF GetItemCount(m.m_setlists[index + 1]) = 0
    THEN Result(m, v, FALSE, <<>>)
    ELSE LET previousSetlist == m.m_activeSetlistIndex
             previousItem == m.m_activeItemIndex
             m1 == [m EXCEPT !.m_activeSetlistIndex = index, !.m_activeItemIndex = 0]
             r == LoadActiveItem(m1, v, m1.m_activeItemIndex, ok)
         IN  IF ~r.ret
             THEN Result([r.m EXCEPT !.m_activeSetlistIndex = previousSetlist,
                                     !.m_activeItemIndex = previousItem],
                         r.v, FALSE, r.calls)
             ELSE Result(r.m, r.v, TRUE, r.calls)

\* mutant: the indices are not restored when the load fails
JumpToItem_NoRollback(m, v, setlistIndex, itemIndex, ok) ==
    IF setlistIndex >= Len(m.m_setlists)
    THEN Result(m, v, FALSE, <<>>)
    ELSE IF itemIndex >= GetItemCount(m.m_setlists[setlistIndex + 1])
    THEN Result(m, v, FALSE, <<>>)
    ELSE LET m1 == [m EXCEPT !.m_activeSetlistIndex = setlistIndex,
                             !.m_activeItemIndex = itemIndex]
             r == LoadActiveItem(m1, v, m1.m_activeItemIndex, ok)
         IN  Result(r.m, r.v, r.ret, r.calls)

\* mutant: a jump is refused unless a setlist is active
JumpToItem_RequiresActive(m, v, setlistIndex, itemIndex, ok) ==
    IF ~IsActive(m) \/ setlistIndex >= Len(m.m_setlists)
    THEN Result(m, v, FALSE, <<>>)
    ELSE IF itemIndex >= GetItemCount(m.m_setlists[setlistIndex + 1])
    THEN Result(m, v, FALSE, <<>>)
    ELSE LET previousSetlist == m.m_activeSetlistIndex
             previousItem == m.m_activeItemIndex
             m1 == [m EXCEPT !.m_activeSetlistIndex = setlistIndex,
                             !.m_activeItemIndex = itemIndex]
             r == LoadActiveItem(m1, v, m1.m_activeItemIndex, ok)
         IN  IF ~r.ret
             THEN Result([r.m EXCEPT !.m_activeSetlistIndex = previousSetlist,
                                     !.m_activeItemIndex = previousItem],
                         r.v, FALSE, r.calls)
             ELSE Result(r.m, r.v, TRUE, r.calls)

JumpToItem(m, v, setlistIndex, itemIndex, ok) ==
    IF setlistIndex >= Len(m.m_setlists)
    THEN Result(m, v, FALSE, <<>>)
    ELSE IF itemIndex >= GetItemCount(m.m_setlists[setlistIndex + 1])
    THEN Result(m, v, FALSE, <<>>)
    ELSE LET previousSetlist == m.m_activeSetlistIndex
             previousItem == m.m_activeItemIndex
             m1 == [m EXCEPT !.m_activeSetlistIndex = setlistIndex,
                             !.m_activeItemIndex = itemIndex]
             r == LoadActiveItem(m1, v, m1.m_activeItemIndex, ok)
         IN  IF ~r.ret
             THEN Result([r.m EXCEPT !.m_activeSetlistIndex = previousSetlist,
                                     !.m_activeItemIndex = previousItem],
                         r.v, FALSE, r.calls)
             ELSE Result(r.m, r.v, TRUE, r.calls)

\* mutant: the viewer's page is advanced before the active setlist is looked up
Next_PagesBeforeActiveCheck(m, v, ok) ==
    IF IsLoaded(v) /\ ViewerCanGoNext(v)
    THEN Result(m, NextPage(v), TRUE, <<"NextPage">>)
    ELSE IF ~HasActiveSetlist(m)
    THEN Result(m, v, FALSE, <<>>)
    ELSE LET nextItem == m.m_activeItemIndex + 1
         IN  IF nextItem < GetItemCount(GetActiveSetlist(m))
             THEN LoadActiveItem(m, v, nextItem, ok)
             ELSE Result(m, v, FALSE, <<>>)

\* mutant: after the last item Next starts the setlist again
Next_WrapsAround(m, v, ok) ==
    IF ~HasActiveSetlist(m)
    THEN Result(m, v, FALSE, <<>>)
    ELSE IF IsLoaded(v) /\ ViewerCanGoNext(v)
    THEN Result(m, NextPage(v), TRUE, <<"NextPage">>)
    ELSE LET nextItem == m.m_activeItemIndex + 1
         IN  IF nextItem < GetItemCount(GetActiveSetlist(m))
             THEN LoadActiveItem(m, v, nextItem, ok)
             ELSE LoadActiveItem(m, v, 0, ok)

Next(m, v, ok) ==
    IF ~HasActiveSetlist(m)
    THEN Result(m, v, FALSE, <<>>)
    ELSE IF IsLoaded(v) /\ ViewerCanGoNext(v)
    THEN Result(m, NextPage(v), TRUE, <<"NextPage">>)
    ELSE LET nextItem == m.m_activeItemIndex + 1
         IN  IF nextItem < GetItemCount(GetActiveSetlist(m))
             THEN LoadActiveItem(m, v, nextItem, ok)
             ELSE Result(m, v, FALSE, <<>>)

\* mutant: the document loaded by Previous stays on its first page
Previous_StaysOnFirstPage(m, v, ok) ==
    IF ~HasActiveSetlist(m)
    THEN Result(m, v, FALSE, <<>>)
    ELSE IF IsLoaded(v) /\ ViewerCanGoPrevious(v)
    THEN Result(m, PreviousPage(v), TRUE, <<"PreviousPage">>)
    ELSE LET prevItem == m.m_activeItemIndex - 1
         IN  IF prevItem >= 0
             THEN LoadActiveItem(m, v, prevItem, ok)
             ELSE Result(m, v, FALSE, <<>>)

\* mutant: Previous does not go back to the first item
Previous_StopsBeforeFirstItem(m, v, ok) ==
    IF ~HasActiveSetlist(m)
    THEN Result(m, v, FALSE, <<>>)
    ELSE IF IsLoaded(v) /\ ViewerCanGoPrevious(v)
    THEN Result(m, PreviousPage(v), TRUE, <<"PreviousPage">>)
    ELSE LET prevItem == m.m_activeItemIndex - 1
         IN  IF prevItem >= 1
             THEN LET r == LoadActiveItem(m, v, prevItem, ok)
                  IN  IF ~r.ret
                      THEN r
                      ELSE IF r.v.m_pageCount > 0
                      THEN Result(r.m, GoToPage(r.v, r.v.m_pageCount - 1), TRUE,
                                  Append(r.calls, "GoToPage"))
                      ELSE Result(r.m, r.v, TRUE, r.calls)
             ELSE Result(m, v, FALSE, <<>>)

Previous(m, v, ok) ==
    IF ~HasActiveSetlist(m)
    THEN Result(m, v, FALSE, <<>>)
    ELSE IF IsLoaded(v) /\ ViewerCanGoPrevious(v)
    THEN Result(m, PreviousPage(v), TRUE, <<"PreviousPage">>)
    ELSE LET prevItem == m.m_activeItemIndex - 1
         IN  IF prevItem >= 0
             THEN LET r == LoadActiveItem(m, v, prevItem, ok)
                  IN  IF ~r.ret
                      THEN r
                      ELSE IF r.v.m_pageCount > 0
                      THEN Result(r.m, GoToPage(r.v, r.v.m_pageCount - 1), TRUE,
                                  Append(r.calls, "GoToPage"))
                      ELSE Result(r.m, r.v, TRUE, r.calls)
             ELSE Result(m, v, FALSE, <<>>)

CanGoNext(m, v) ==
    IF ~HasActiveSetlist(m)
    THEN FALSE
    ELSE IF IsLoaded(v) /\ ViewerCanGoNext(v)
    THEN TRUE
    ELSE m.m_activeItemIndex + 1 < GetItemCount(GetActiveSetlist(m))

CanGoPrevious(m, v) ==
    IF ~HasActiveSetlist(m)
    THEN FALSE
    ELSE IF IsLoaded(v) /\ ViewerCanGoPrevious(v)
    THEN TRUE
    ELSE m.m_activeItemIndex - 1 >= 0

(***************************************************************************)
(* Persistence.  A file is [exists, content], content the sequence of its  *)
(* characters.                                                             *)
(***************************************************************************)
NoFile == [exists |-> FALSE, content |-> <<>>]

FileOf(content) == [exists |-> TRUE, content |-> content]

Header == <<"S", "E", "T", "L", "I", "S", "T", "S", "_", "V", "1">>

SetlistTag == <<"S", "E", "T", "L", "I", "S", "T", ":">>

ItemTag == <<"I", "T", "E", "M", ":">>

EndTag == <<"E", "N", "D">>

\* mutant: a space separates the display name from the path
RECURSIVE WriteItems_SpaceSeparator(_)
WriteItems_SpaceSeparator(items) ==
    IF items = <<>>
    THEN <<>>
    ELSE ItemTag \o items[1].name \o <<" ">> \o items[1].fullPath \o <<"\n">>
         \o WriteItems_SpaceSeparator(Tail(items))

RECURSIVE WriteItems(_)
WriteItems(items) ==
    IF items = <<>>
    THEN <<>>
    ELSE ItemTag \o items[1].name \o <<"\t">> \o items[1].fullPath \o <<"\n">>
         \o WriteItems(Tail(items))

RECURSIVE WriteSetlists(_)
WriteSetlists(setlists) ==
    IF setlists = <<>>
    THEN <<>>
    ELSE SetlistTag \o setlists[1].m_name \o <<"\n">>
         \o WriteItems(setlists[1].m_items)
         \o WriteSetlists(Tail(setlists))

\* mutant: the stream is opened without std::ios::trunc, at the end of the file
SaveToFile_Appends(m, before, ok) ==
    IF ~ok
    THEN [file |-> before, ret |-> FALSE]
    ELSE [file |-> FileOf(before.content \o Header \o <<"\n">>
                          \o WriteSetlists(m.m_setlists) \o EndTag \o <<"\n">>),
          ret |-> TRUE]

\* ok: the output stream opens.  before: the file at filepath before the call.
SaveToFile(m, before, ok) ==
    IF ~ok
    THEN [file |-> before, ret |-> FALSE]
    ELSE [file |-> FileOf(Header \o <<"\n">> \o WriteSetlists(m.m_setlists)
                          \o EndTag \o <<"\n">>),
          ret |-> TRUE]

\* position of the first c in s (0: npos)
Find(s, c) ==
    LET at == {i \in 1..Len(s) : s[i] = c}
    IN  IF at = {} THEN 0 ELSE CHOOSE i \in at : \A j \in at : i <= j

\* the lines successive std::getline calls give until one fails
RECURSIVE GetLines(_)
GetLines(content) ==
    IF content = <<>>
    THEN <<>>
    ELSE LET nl == Find(content, "\n")
         IN  IF nl = 0
             THEN <<content>>
             ELSE <<SubSeq(content, 1, nl - 1)>>
                  \o GetLines(SubSeq(content, nl + 1, Len(content)))

\* line.rfind(prefix, 0) == 0
StartsWith(line, prefix) ==
    Len(line) >= Len(prefix) /\ SubSeq(line, 1, Len(prefix)) = prefix

\* mutant: an ITEM: line without a tab is taken as a path without a name
ParseItem_PathWithoutTab(setlists, line) ==
    LET rest == SubSeq(line, Len(ItemTag) + 1, Len(line))
        tabPos == Find(rest, "\t")
        name == SubSeq(rest, 1, tabPos - 1)
        path == SubSeq(rest, tabPos + 1, Len(rest))
        last == Len(setlists)
    IN  [setlists EXCEPT ![last] = AddItem(setlists[last], name, path).setlist]

\* setlists after an ITEM: line, current pointing at the last setlist
ParseItem(setlists, line) ==
    LET rest == SubSeq(line, Len(ItemTag) + 1, Len(line))
        tabPos == Find(rest, "\t")
    IN  IF tabPos # 0
        THEN LET name == SubSeq(rest, 1, tabPos - 1)
                 path == SubSeq(rest, tabPos + 1, Len(rest))
                 last == Len(setlists)
             IN  [setlists EXCEPT ![last] = AddItem(setlists[last], name, path).setlist]
        ELSE setlists

\* mutant: an END line is skipped like an unknown line
RECURSIVE ParseLines_ReadsPastEnd(_, _, _)
ParseLines_ReadsPastEnd(lines, setlists, current) ==
    IF lines = <<>>
    THEN setlists
    ELSE LET line == lines[1]
         IN  IF StartsWith(line, SetlistTag)
             THEN ParseLines_ReadsPastEnd(Tail(lines),
                             Append(setlists,
                                    NewSetlist(SubSeq(line, Len(SetlistTag) + 1, Len(line)))),
                             TRUE)
             ELSE IF StartsWith(line, ItemTag) /\ current
             THEN ParseLines_ReadsPastEnd(Tail(lines), ParseItem(setlists, line), current)
             ELSE ParseLines_ReadsPastEnd(Tail(lines), setlists, current)

\* the while loop of LoadFromFile; current: the pointer current is not null
RECURSIVE ParseLines(_, _, _)
ParseLines(lines, setlists, current) ==
    IF lines = <<>>
    THEN setlists
    ELSE LET line == lines[1]
         IN  IF line = EndTag
             THEN setlists
             ELSE IF StartsWith(line, SetlistTag)
             THEN ParseLines(Tail(lines),
                             Append(setlists,
                                    NewSetlist(SubSeq(line, Len(SetlistTag) + 1, Len(line)))),
                             TRUE)
             ELSE IF StartsWith(line, ItemTag) /\ current
             THEN ParseLines(Tail(lines), ParseItem(setlists, line), current)
             ELSE ParseLines(Tail(lines), setlists, current)

\* mutant: the collection is cleared before the header is checked
LoadFromFile_ClearsFirst(m, file) ==
    IF ~file.exists
    THEN [m |-> m, ret |-> FALSE]
    ELSE LET lines == GetLines(file.content)
             cleared == [Deactivate(m) EXCEPT !.m_setlists = <<>>]
         IN  IF lines = <<>> \/ lines[1] # Header
             THEN [m |-> cleared, ret |-> FALSE]
             ELSE [m |-> [cleared EXCEPT
                              !.m_setlists = ParseLines(Tail(lines), <<>>, FALSE)],
                   ret |-> TRUE]

\* mutant: the setlists of the file are added to those of before
LoadFromFile_AppendsToExisting(m, file) ==
    IF ~file.exists
    THEN [m |-> m, ret |-> FALSE]
    ELSE LET lines == GetLines(file.content)
         IN  IF lines = <<>> \/ lines[1] # Header
             THEN [m |-> m, ret |-> FALSE]
             ELSE [m |-> [Deactivate(m) EXCEPT
                              !.m_setlists =
                                  ParseLines(Tail(lines), m.m_setlists,
                                             m.m_setlists # <<>>)],
                   ret |-> TRUE]

\* mutant: the loaded collection is put in place without Deactivate()
LoadFromFile_KeepsActive(m, file) ==
    IF ~file.exists
    THEN [m |-> m, ret |-> FALSE]
    ELSE LET lines == GetLines(file.content)
         IN  IF lines = <<>> \/ lines[1] # Header
             THEN [m |-> m, ret |-> FALSE]
             ELSE [m |-> [m EXCEPT
                              !.m_setlists = ParseLines(Tail(lines), <<>>, FALSE)],
                   ret |-> TRUE]

LoadFromFile(m, file) ==
    IF ~file.exists
    THEN [m |-> m, ret |-> FALSE]
    ELSE LET lines == GetLines(file.content)
         IN  IF lines = <<>> \/ lines[1] # Header
             THEN [m |-> m, ret |-> FALSE]
             ELSE [m |-> [Deactivate(m) EXCEPT
                              !.m_setlists = ParseLines(Tail(lines), <<>>, FALSE)],
                   ret |-> TRUE]

(***************************************************************************)
(* The application state: the SetlistManager's fields, the PdfViewer, and  *)
(* the record of the call that has just returned (its name, arguments,     *)
(* result, the viewer calls it made, and the manager and viewer before     *)
(* it), which the event loop drops before it handles the next event.       *)
(* disk is the setlists file at GetDefaultSavePath(); only SpecPersist     *)
(* follows it, elsewhere the file a LoadFromFile finds is an input of the  *)
(* call.                                                                   *)
(***************************************************************************)
VARIABLES m_setlists, m_activeSetlistIndex, m_activeItemIndex, viewer, last, disk

vars == <<m_setlists, m_activeSetlistIndex, m_activeItemIndex, viewer, last, disk>>

Manager ==
    [m_setlists |-> m_setlists,
     m_activeSetlistIndex |-> m_activeSetlistIndex,
     m_activeItemIndex |-> m_activeItemIndex]

\* names a caller gives CreateSetlist: none, and one typed in
CreateNames == {<<>>, SetlistPrefix \o <<"2">>}

\* entries a caller gives AddItem: the library's files and one with no path
EmptyEntry == [filename |-> <<"E">>, fullPath |-> <<>>]

AddEntries == LibraryFiles \cup {EmptyEntry}

\* files a caller gives LoadFromFile: a missing file, an empty file, a file of
\* another format, and a saved collection
BadHeaderFile == FileOf(<<"S", "E", "T", "L", "I", "S", "T", "S", "\n">> \o EndTag)

SampleFile ==
    FileOf(Header \o <<"\n">>
           \o SetlistTag \o SetlistPrefix \o <<"1", "\n">>
           \o ItemTag \o <<"Z", "\t">> \o PathZ \o <<"\n">>
           \o ItemTag \o <<"B", "\t">> \o PathB \o <<"\n">>
           \o EndTag \o <<"\n">>)

LoadFiles == {NoFile, FileOf(<<>>), BadHeaderFile, SampleFile}

\* indices a caller gives: every valid one and the first one out of range
SetlistIndices == 0..Len(m_setlists)

ItemIndices(index) ==
    IF index < Len(m_setlists) THEN 0..GetItemCount(m_setlists[index + 1]) ELSE {0}

NoCall ==
    [op |-> "none", args |-> <<>>, ok |-> TRUE, ret |-> FALSE, calls |-> <<>>,
     pre |-> [m |-> NewManager, v |-> NewViewer]]

RECURSIVE TotalItems(_)
TotalItems(setlists) ==
    IF setlists = <<>>
    THEN 0
    ELSE GetItemCount(setlists[1]) + TotalItems(Tail(setlists))

Init ==
    /\ m_setlists = <<>>
    /\ m_activeSetlistIndex = -1
    /\ m_activeItemIndex = -1
    /\ viewer = NewViewer
    /\ disk = NoFile
    /\ last = NoCall

\* the state after a call that gave manager m and viewer v; ok: whether the
\* file the call loaded, if it loaded one, could be opened
Becomes(m, v, op, args, ok, ret, calls) ==
    /\ last.op = "none"
    /\ m_setlists' = m.m_setlists
    /\ m_activeSetlistIndex' = m.m_activeSetlistIndex
    /\ m_activeItemIndex' = m.m_activeItemIndex
    /\ viewer' = v
    /\ disk' = disk
    /\ last' = [op |-> op, args |-> args,
                ok |-> (ok \/ \A i \in 1..Len(calls) : calls[i] # "Load"),
                ret |-> ret, calls |-> calls,
                pre |-> [m |-> Manager, v |-> viewer]]

CallCreateSetlist ==
    \E name \in CreateNames :
        /\ Len(m_setlists) < MaxSetlists
        /\ LET r == CreateSetlist(Manager, name)
           IN  Becomes(r.m, viewer, "CreateSetlist", <<name>>, TRUE, r.ret, <<>>)

CallRemoveSetlist ==
    \E index \in SetlistIndices :
        LET r == RemoveSetlist(Manager, index)
        IN  Becomes(r.m, viewer, "RemoveSetlist", <<index>>, TRUE, r.ret, <<>>)

CallActivateSetlist ==
    \E index \in SetlistIndices, ok \in BOOLEAN :
        LET r == ActivateSetlist(Manager, viewer, index, ok)
        IN  Becomes(r.m, r.v, "ActivateSetlist", <<index>>, ok, r.ret, r.calls)

CallDeactivate ==
    Becomes(Deactivate(Manager), viewer, "Deactivate", <<>>, TRUE, TRUE, <<>>)

CallJumpToItem ==
    \E setlistIndex \in SetlistIndices :
    \E itemIndex \in ItemIndices(setlistIndex), ok \in BOOLEAN :
        LET r == JumpToItem(Manager, viewer, setlistIndex, itemIndex, ok)
        IN  Becomes(r.m, r.v, "JumpToItem", <<setlistIndex, itemIndex>>, ok,
                    r.ret, r.calls)

CallNext ==
    \E ok \in BOOLEAN :
        LET r == Next(Manager, viewer, ok)
        IN  Becomes(r.m, r.v, "Next", <<>>, ok, r.ret, r.calls)

CallPrevious ==
    \E ok \in BOOLEAN :
        LET r == Previous(Manager, viewer, ok)
        IN  Becomes(r.m, r.v, "Previous", <<>>, ok, r.ret, r.calls)

\* GetSetlist(index)->AddItem(entry)
CallAddItem ==
    \E index \in 0..(Len(m_setlists) - 1), entry \in AddEntries :
        /\ TotalItems(m_setlists) < MaxItems
        /\ LET r == AddItem(m_setlists[index + 1], entry.filename, entry.fullPath)
           IN  Becomes([Manager EXCEPT !.m_setlists[index + 1] = r.setlist], viewer,
                       "AddItem", <<index, entry>>, TRUE, r.ret, <<>>)

\* GetSetlist(index)->RemoveItem(itemIndex)
CallRemoveItem ==
    \E index \in 0..(Len(m_setlists) - 1) :
    \E itemIndex \in ItemIndices(index) :
        LET r == RemoveItem(m_setlists[index + 1], itemIndex)
        IN  Becomes([Manager EXCEPT !.m_setlists[index + 1] = r.setlist], viewer,
                    "RemoveItem", <<index, itemIndex>>, TRUE, r.ret, <<>>)

\* GetSetlist(index)->MoveItem(fromIndex, toIndex)
CallMoveItem ==
    \E index \in 0..(Len(m_setlists) - 1) :
    \E fromIndex \in ItemIndices(index), toIndex \in ItemIndices(index) :
        LET r == MoveItem(m_setlists[index + 1], fromIndex, toIndex)
        IN  Becomes([Manager EXCEPT !.m_setlists[index + 1] = r.setlist], viewer,
                    "MoveItem", <<index, fromIndex, toIndex>>, TRUE, r.ret, <<>>)

\* GetSetlist(index)->Clear()
CallClear ==
    \E index \in 0..(Len(m_setlists) - 1) :
        Becomes([Manager EXCEPT !.m_setlists[index + 1] = Clear(m_setlists[index + 1])],
                viewer, "Clear", <<index>>, TRUE, TRUE, <<>>)

CallLoadFromFile ==
    \E file \in LoadFiles :
        LET r == LoadFromFile(Manager, file)
        IN  Becomes(r.m, viewer, "LoadFromFile", <<file>>, TRUE, r.ret, <<>>)

\* the "Close PDF" button
ClosePdf ==
    Becomes(Manager, Close(viewer), "ClosePdf", <<>>, TRUE, TRUE, <<"Close">>)

\* a click on a file of the library that is not the one shown
SelectLibraryFile ==
    \E entry \in LibraryFiles, ok \in BOOLEAN :
        /\ viewer.m_filename # entry.filename
        /\ LET r == Load(viewer, entry.fullPath, ok)
           IN  Becomes(Deactivate(Manager), r.viewer, "SelectLibraryFile",
                       <<entry>>, ok, r.ret, <<"Load">>)

\* mutant: the query turns the page it asks about
CallCanGoNext_TurnsPage ==
    Becomes(Manager, NextPage(viewer), "CanGoNext", <<>>, TRUE,
            CanGoNext(Manager, viewer), <<"NextPage">>)

\* the controls panel asks whether the Next button is enabled
CallCanGoNext ==
    Becomes(Manager, viewer, "CanGoNext", <<>>, TRUE, CanGoNext(Manager, viewer), <<>>)

\* the controls panel asks whether the Prev button is enabled
CallCanGoPrevious ==
    Becomes(Manager, viewer, "CanGoPrevious", <<>>, TRUE,
            CanGoPrevious(Manager, viewer), <<>>)

\* the event loop is ready for the next event
Return ==
    /\ last.op # "none"
    /\ last' = NoCall
    /\ UNCHANGED <<m_setlists, m_activeSetlistIndex, m_activeItemIndex, viewer, disk>>

NextState ==
    \/ CallCreateSetlist
    \/ CallRemoveSetlist
    \/ CallActivateSetlist
    \/ CallDeactivate
    \/ CallJumpToItem
    \/ CallNext
    \/ CallPrevious
    \/ CallAddItem
    \/ CallRemoveItem
    \/ CallMoveItem
    \/ CallClear
    \/ CallLoadFromFile
    \/ ClosePdf
    \/ SelectLibraryFile
    \/ CallCanGoNext
    \/ CallCanGoPrevious
    \/ Return

Spec == Init /\ [][NextState]_vars

(***************************************************************************)
(* The manager as the only user of the viewer: the calls of Spec without   *)
(* the library click and the Close PDF button.                             *)
(***************************************************************************)
NextManagerOnly ==
    \/ CallCreateSetlist
    \/ CallRemoveSetlist
    \/ CallActivateSetlist
    \/ CallDeactivate
    \/ CallJumpToItem
    \/ CallNext
    \/ CallPrevious
    \/ CallAddItem
    \/ CallRemoveItem
    \/ CallMoveItem
    \/ CallClear
    \/ CallLoadFromFile
    \/ CallCanGoNext
    \/ CallCanGoPrevious
    \/ Return

SpecManagerOnly == Init /\ [][NextManagerOnly]_vars

(***************************************************************************)
(* The PdfViewer on its own: a caller loads and closes documents and turns *)
(* pages, and the main loop calls Update once a frame.                     *)
(***************************************************************************)
\* paths a caller gives Load: the library's files and the empty path
ViewerPaths == {PathA, PathB, PathZ, <<>>}

\* pages a caller gives GoToPage: from one before the first page to one past
\* the last page of the longest document
ViewerPages == -1..PageCountOf(PathA)

ViewerBecomes(v, op, args, ok, ret) ==
    /\ viewer' = v
    /\ last' = [op |-> op, args |-> args, ok |-> ok, ret |-> ret, calls |-> <<>>,
                pre |-> [m |-> Manager, v |-> viewer]]
    /\ UNCHANGED <<m_setlists, m_activeSetlistIndex, m_activeItemIndex, disk>>

ViewerLoad ==
    \E filepath \in ViewerPaths, ok \in BOOLEAN :
        LET r == Load(viewer, filepath, ok)
        IN  ViewerBecomes(r.viewer, "Load", <<filepath>>, ok, r.ret)

ViewerClose == ViewerBecomes(Close(viewer), "Close", <<>>, TRUE, TRUE)

ViewerNextPage == ViewerBecomes(NextPage(viewer), "NextPage", <<>>, TRUE, TRUE)

ViewerPreviousPage ==
    ViewerBecomes(PreviousPage(viewer), "PreviousPage", <<>>, TRUE, TRUE)

ViewerGoToPage ==
    \E page \in ViewerPages :
        ViewerBecomes(GoToPage(viewer, page), "GoToPage", <<page>>, TRUE, TRUE)

ViewerUpdate == ViewerBecomes(Update(viewer), "Update", <<>>, TRUE, TRUE)

NextViewer ==
    \/ ViewerLoad
    \/ ViewerClose
    \/ ViewerNextPage
    \/ ViewerPreviousPage
    \/ ViewerGoToPage
    \/ ViewerUpdate

SpecViewer == Init /\ [][NextViewer]_vars

(***************************************************************************)
(* A session: the setlist file saved by an earlier run is loaded at        *)
(* startup, its setlist is activated and played with Next and Previous.    *)
(* The record of a call also keeps the call before it (prior) and steps,   *)
(* the number of Next calls that have succeeded since ActivateSetlist put  *)
(* the viewer on page 0 of item 0 with nothing else called since and no    *)
(* load failed (-1 otherwise).                                             *)
(***************************************************************************)
SessionPaths ==
    UNION {[1..n -> {PathA, PathB, PathZ}] : n \in 1..MaxSessionItems}

RECURSIVE SetlistOf(_, _)
SetlistOf(sl, paths) ==
    IF paths = <<>>
    THEN sl
    ELSE SetlistOf(AddItem(sl, FilenameOf(paths[1]), paths[1]).setlist, Tail(paths))

\* the files SaveToFile wrote for a collection of one setlist
SessionFiles ==
    {SaveToFile([NewManager EXCEPT !.m_setlists =
                     <<SetlistOf(NewSetlist(SetlistPrefix \o <<"1">>), paths)>>],
                NoFile, TRUE).file : paths \in SessionPaths}

NoPrior == [op |-> "none", ok |-> TRUE, ret |-> FALSE,
            pre |-> [m |-> NewManager, v |-> NewViewer]]

InitSession ==
    /\ m_setlists = <<>>
    /\ m_activeSetlistIndex = -1
    /\ m_activeItemIndex = -1
    /\ viewer = NewViewer
    /\ disk = NoFile
    /\ last = [op |-> "none", args |-> <<>>, ok |-> TRUE, ret |-> FALSE,
               calls |-> <<>>, pre |-> [m |-> NewManager, v |-> NewViewer],
               prior |-> NoPrior, steps |-> -1]

SessionBecomes(m, v, op, args, ok, ret, calls, steps) ==
    /\ m_setlists' = m.m_setlists
    /\ m_activeSetlistIndex' = m.m_activeSetlistIndex
    /\ m_activeItemIndex' = m.m_activeItemIndex
    /\ viewer' = v
    /\ disk' = disk
    /\ last' = [op |-> op, args |-> args,
                ok |-> (ok \/ \A i \in 1..Len(calls) : calls[i] # "Load"),
                ret |-> ret, calls |-> calls,
                pre |-> [m |-> Manager, v |-> viewer],
                prior |-> [op |-> last.op, ok |-> last.ok, ret |-> last.ret,
                           pre |-> last.pre],
                steps |-> steps]

\* the setlists file is loaded when the application starts
SessionLoadFromFile ==
    \E file \in SessionFiles :
        /\ last.op = "none"
        /\ LET r == LoadFromFile(Manager, file)
           IN  SessionBecomes(r.m, viewer, "LoadFromFile", <<file>>, TRUE, r.ret,
                              <<>>, -1)

SessionActivateSetlist ==
    \E ok \in BOOLEAN :
        /\ last.op # "none"
        /\ LET r == ActivateSetlist(Manager, viewer, 0, ok)
           IN  SessionBecomes(r.m, r.v, "ActivateSetlist", <<0>>, ok, r.ret, r.calls,
                              IF r.ret THEN 0 ELSE -1)

SessionNext ==
    \E ok \in BOOLEAN :
        /\ last.op # "none"
        /\ LET r == Next(Manager, viewer, ok)
           IN  SessionBecomes(r.m, r.v, "Next", <<>>, ok, r.ret, r.calls,
                              IF last.steps < 0 THEN -1
                              ELSE IF r.ret THEN last.steps + 1
                              ELSE IF r.calls = <<>> THEN last.steps
                              ELSE -1)

SessionPrevious ==
    \E ok \in BOOLEAN :
        /\ last.op # "none"
        /\ LET r == Previous(Manager, viewer, ok)
           IN  SessionBecomes(r.m, r.v, "Previous", <<>>, ok, r.ret, r.calls, -1)

NextSession ==
    \/ SessionLoadFromFile
    \/ SessionActivateSetlist
    \/ SessionNext
    \/ SessionPrevious

SpecSession == InitSession /\ [][NextSession]_vars

(***************************************************************************)
(* A run of Next or of Previous: from an active setlist whose files all    *)
(* load, with the viewer on some page of the active item, the Next button  *)
(* (or the Prev button) is pressed again and again until the call returns  *)
(* false.  The record of a call keeps the kind of run and steps, the       *)
(* number of calls of the run that returned true.                          *)
(***************************************************************************)
RunKinds == {"Next", "Previous"}

InitRun ==
    /\ \E paths \in SessionPaths :
           m_setlists = <<SetlistOf(NewSetlist(SetlistPrefix \o <<"1">>), paths)>>
    /\ m_activeSetlistIndex = 0
    /\ m_activeItemIndex \in 0..(GetItemCount(m_setlists[1]) - 1)
    /\ \E page \in 0..(PageCountOf(PathA) - 1) :
           viewer = GoToPage(Load(NewViewer,
                                  m_setlists[1].m_items[m_activeItemIndex + 1].fullPath,
                                  TRUE).viewer,
                             page)
    /\ disk = NoFile
    /\ \E run \in RunKinds :
           last = [op |-> "none", args |-> <<>>, ok |-> TRUE, ret |-> FALSE,
                   calls |-> <<>>, pre |-> [m |-> NewManager, v |-> NewViewer],
                   run |-> run, steps |-> 0]

RunBecomes(r, op) ==
    /\ m_setlists' = r.m.m_setlists
    /\ m_activeSetlistIndex' = r.m.m_activeSetlistIndex
    /\ m_activeItemIndex' = r.m.m_activeItemIndex
    /\ viewer' = r.v
    /\ disk' = disk
    /\ last' = [op |-> op, args |-> <<>>, ok |-> TRUE, ret |-> r.ret,
                calls |-> r.calls, pre |-> [m |-> Manager, v |-> viewer],
                run |-> last.run,
                steps |-> IF r.ret THEN last.steps + 1 ELSE last.steps]

\* the Next button, until Next has returned false
RunNext ==
    /\ last.run = "Next"
    /\ ~(last.op = "Next" /\ ~last.ret)
    /\ RunBecomes(Next(Manager, viewer, TRUE), "Next")

\* the Prev button, until Previous has returned false
RunPrevious ==
    /\ last.run = "Previous"
    /\ ~(last.op = "Previous" /\ ~last.ret)
    /\ RunBecomes(Previous(Manager, viewer, TRUE), "Previous")

NextRun ==
    \/ RunNext
    \/ RunPrevious

SpecRun == InitRun /\ [][NextRun]_vars /\ WF_vars(RunNext) /\ WF_vars(RunPrevious)

(***************************************************************************)
(* The item operations of one setlist: the manager holds a single setlist  *)
(* of any items, and the callers of GetSetlist(0) add, remove, move and    *)
(* clear items.  The record of a call keeps the call before it (prior).    *)
(***************************************************************************)
ListPaths ==
    UNION {[1..n -> {PathA, PathB, PathZ}] : n \in 0..MaxListItems}

\* entries a caller gives AddItem
ListEntries == {PdfEntry(PathA), PdfEntry(PathB), PdfEntry(PathZ), EmptyEntry}

\* indices a caller gives: every valid one and the first one out of range
ListIndices == 0..GetItemCount(m_setlists[1])

InitSetlist ==
    /\ \E paths \in ListPaths :
           m_setlists = <<SetlistOf(NewSetlist(SetlistPrefix \o <<"1">>), paths)>>
    /\ m_activeSetlistIndex = -1
    /\ m_activeItemIndex = -1
    /\ viewer = NewViewer
    /\ disk = NoFile
    /\ last = [op |-> "none", args |-> <<>>, ok |-> TRUE, ret |-> FALSE,
               calls |-> <<>>, pre |-> [m |-> NewManager, v |-> NewViewer],
               prior |-> NoPrior]

\* the state after a call on setlist 0 that gave setlist sl
ListBecomes(sl, op, args, ret) ==
    /\ m_setlists' = [m_setlists EXCEPT ![1] = sl]
    /\ UNCHANGED <<m_activeSetlistIndex, m_activeItemIndex, viewer, disk>>
    /\ last' = [op |-> op, args |-> args, ok |-> TRUE, ret |-> ret, calls |-> <<>>,
                pre |-> [m |-> Manager, v |-> viewer],
                prior |-> [op |-> last.op, ok |-> last.ok, ret |-> last.ret,
                           pre |-> last.pre]]

ListAddItem ==
    \E entry \in ListEntries :
        /\ GetItemCount(m_setlists[1]) < MaxListItems
        /\ LET r == AddItem(m_setlists[1], entry.filename, entry.fullPath)
           IN  ListBecomes(r.setlist, "AddItem", <<entry>>, r.ret)

ListRemoveItem ==
    \E index \in ListIndices :
        LET r == RemoveItem(m_setlists[1], index)
        IN  ListBecomes(r.setlist, "RemoveItem", <<index>>, r.ret)

ListMoveItem ==
    \E fromIndex \in ListIndices, toIndex \in ListIndices :
        LET r == MoveItem(m_setlists[1], fromIndex, toIndex)
        IN  ListBecomes(r.setlist, "MoveItem", <<fromIndex, toIndex>>, r.ret)

ListClear ==
    ListBecomes(Clear(m_setlists[1]), "Clear", <<>>, TRUE)

NextSetlist ==
    \/ ListAddItem
    \/ ListRemoveItem
    \/ ListMoveItem
    \/ ListClear

SpecSetlist == InitSetlist /\ [][NextSetlist]_vars

(***************************************************************************)
(* Persistence: the collection is saved to the setlists file and loaded    *)
(* from it, by this run or by a run started later; the file may also have  *)
(* been written by hand.  The record of a call keeps the call before it    *)
(* and the file before the call.                                           *)
(***************************************************************************)
ItemPlain == [name |-> <<"a">>, fullPath |-> <<"p">>]

ItemNoName == [name |-> <<>>, fullPath |-> PathA]

ItemTabPath == [name |-> <<"b">>, fullPath |-> <<"p", "\t", "q">>]

ItemTabName == [name |-> <<"a", "\t", "b">>, fullPath |-> <<"p">>]

ItemNewlinePath == [name |-> <<"a">>, fullPath |-> <<"p", "\n", "E", "N", "D">>]

\* the setlist CreateSetlist(name) and AddItem of each item give
RECURSIVE SetlistWith(_, _)
SetlistWith(sl, items) ==
    IF items = <<>>
    THEN sl
    ELSE SetlistWith(AddItem(sl, items[1].name, items[1].fullPath).setlist, Tail(items))

SavedSetlists ==
    {SetlistWith(NewSetlist(<<>>), <<>>),
     SetlistWith(NewSetlist(EndTag), <<ItemNoName>>),
     SetlistWith(NewSetlist(ItemTag \o <<"x">>), <<ItemTabPath, ItemPlain>>),
     SetlistWith(NewSetlist(<<"a", "\n", "b">>), <<ItemPlain, ItemPlain>>),
     SetlistWith(NewSetlist(<<"b">>), <<ItemTabName, ItemNewlinePath>>)}

PersistCollections ==
    UNION {[1..n -> SavedSetlists] : n \in 0..MaxSavedSetlists}

\* the characters of the lines, each line ended by a newline
RECURSIVE JoinLines(_)
JoinLines(lines) ==
    IF lines = <<>> THEN <<>> ELSE lines[1] \o <<"\n">> \o JoinLines(Tail(lines))

HeaderOnlyFile == FileOf(Header)

HeaderSpaceFile == FileOf(JoinLines(<<Header \o <<" ">>, SetlistTag \o <<"a">>, EndTag>>))

MixedFile ==
    FileOf(JoinLines(<<Header,
                       ItemTag \o <<"a", "\t", "p">>,
                       <<"j", "u", "n", "k">>,
                       SetlistTag,
                       ItemTag \o <<"a", "\t", "p">>,
                       <<>>,
                       ItemTag \o <<"\t">> \o PathA,
                       SetlistTag \o EndTag,
                       ItemTag \o <<"b", "\t", "p", "\t", "q">>,
                       EndTag,
                       SetlistTag \o <<"l">>,
                       ItemTag \o <<"a", "\t", "p">>>>))

NoEndFile ==
    FileOf(JoinLines(<<Header, SetlistTag \o <<"a">>>>) \o ItemTag \o <<"a", "\t", "p">>)

MalformedItemFile ==
    FileOf(JoinLines(<<Header,
                       SetlistTag \o <<"a">>,
                       ItemTag \o <<"a">>,
                       ItemTag \o <<"a", "\t">>,
                       ItemTag \o <<"a", "\t", "p">>,
                       EndTag>>))

MalformedBetweenFile ==
    FileOf(JoinLines(<<Header,
                       ItemTag \o <<"a">>,
                       SetlistTag \o <<"a">>,
                       ItemTag \o <<"a", "\t", "p">>,
                       ItemTag,
                       ItemTag \o <<"\t">>,
                       SetlistTag \o <<"b">>,
                       ItemTag \o <<"p">>,
                       ItemTag \o <<"b", "\t", "q">>,
                       EndTag>>))

PersistFiles ==
    {NoFile, FileOf(<<>>), BadHeaderFile, HeaderSpaceFile, HeaderOnlyFile,
     MixedFile, NoEndFile, MalformedItemFile, MalformedBetweenFile}

InitPersist ==
    /\ m_setlists \in PersistCollections
    /\ m_activeSetlistIndex = -1
    /\ m_activeItemIndex = -1
    /\ viewer = NewViewer
    /\ disk \in PersistFiles
    /\ last = [op |-> "none", args |-> <<>>, ok |-> TRUE, ret |-> FALSE,
               calls |-> <<>>,
               pre |-> [m |-> NewManager, v |-> NewViewer, file |-> NoFile],
               prior |-> NoPrior]

PersistBecomes(m, v, file, op, args, ok, ret, calls) ==
    /\ m_setlists' = m.m_setlists
    /\ m_activeSetlistIndex' = m.m_activeSetlistIndex
    /\ m_activeItemIndex' = m.m_activeItemIndex
    /\ viewer' = v
    /\ disk' = file
    /\ last' = [op |-> op, args |-> args, ok |-> ok, ret |-> ret, calls |-> calls,
                pre |-> [m |-> Manager, v |-> viewer, file |-> disk],
                prior |-> [op |-> last.op, ok |-> last.ok, ret |-> last.ret,
                           pre |-> [m |-> last.pre.m, v |-> last.pre.v]]]

PersistActivateSetlist ==
    \E index \in 0..(Len(m_setlists) - 1) :
        LET r == ActivateSetlist(Manager, viewer, index, TRUE)
        IN  PersistBecomes(r.m, r.v, disk, "ActivateSetlist", <<index>>, TRUE, r.ret,
                           r.calls)

\* SaveToFile(GetDefaultSavePath()); ok: the output stream opens
PersistSaveToFile ==
    \E ok \in BOOLEAN :
        LET r == SaveToFile(Manager, disk, ok)
        IN  PersistBecomes(Manager, viewer, r.file, "SaveToFile", <<>>, ok, r.ret, <<>>)

\* the Load button
PersistLoadFromFile ==
    LET r == LoadFromFile(Manager, disk)
    IN  PersistBecomes(r.m, viewer, disk, "LoadFromFile", <<disk>>, TRUE, r.ret, <<>>)

\* a run started later: a fresh manager loads the file
PersistStart ==
    /\ last.op # "Start"
    /\ LET r == LoadFromFile(NewManager, disk)
       IN  PersistBecomes(r.m, NewViewer, disk, "Start", <<disk>>, TRUE, r.ret, <<>>)

NextPersist ==
    \/ PersistActivateSetlist
    \/ PersistSaveToFile
    \/ PersistLoadFromFile
    \/ PersistStart

SpecPersist == InitPersist /\ [][NextPersist]_vars

(***************************************************************************)
(* The runs of the application: main constructs the manager and loads the  *)
(* setlists file, the user edits the collection, and on leaving the main   *)
(* loop main saves the collection if it holds a setlist.  The file is kept *)
(* between the runs.                                                       *)
(***************************************************************************)
\* the file an earlier run saved
EarlierFile ==
    SaveToFile([NewManager EXCEPT
                    !.m_setlists = <<SetlistWith(NewSetlist(<<"o", "l", "d">>),
                                                 <<ItemPlain>>)>>],
               NoFile, TRUE).file

LifecycleFiles == {NoFile, EarlierFile}

InitLifecycle ==
    /\ m_setlists = <<>>
    /\ m_activeSetlistIndex = -1
    /\ m_activeItemIndex = -1
    /\ viewer = NewViewer
    /\ disk \in LifecycleFiles
    /\ last = [op |-> "none", args |-> <<>>, ok |-> TRUE, ret |-> FALSE,
               calls |-> <<>>,
               pre |-> [m |-> NewManager, v |-> NewViewer, file |-> NoFile],
               prior |-> NoPrior]

\* the main loop is running
Running == last.op \notin {"none", "Exit"}

\* main up to its loop: fresh application state, auto-load of the setlists
LifecycleStart ==
    /\ ~Running
    /\ LET r == LoadFromFile(NewManager, disk)
       IN  PersistBecomes(r.m, NewViewer, disk, "Start", <<disk>>, TRUE, r.ret, <<>>)

LifecycleCreateSetlist ==
    /\ Running
    /\ Len(m_setlists) < MaxSetlists
    /\ \E name \in CreateNames :
           LET r == CreateSetlist(Manager, name)
           IN  PersistBecomes(r.m, viewer, disk, "CreateSetlist", <<name>>, TRUE, r.ret,
                              <<>>)

\* the Remove button on the selected setlist
LifecycleRemoveSetlist ==
    /\ Running
    /\ \E index \in 0..(Len(m_setlists) - 1) :
           LET r == RemoveSetlist(Manager, index)
           IN  PersistBecomes(r.m, viewer, disk, "RemoveSetlist", <<index>>, TRUE, r.ret,
                              <<>>)

\* the Add button: a library file is added to the selected setlist
LifecycleAddItem ==
    /\ Running
    /\ TotalItems(m_setlists) < MaxItems
    /\ \E index \in 0..(Len(m_setlists) - 1), entry \in LibraryFiles :
           LET r == AddItem(m_setlists[index + 1], entry.filename, entry.fullPath)
           IN  PersistBecomes([Manager EXCEPT !.m_setlists[index + 1] = r.setlist],
                              viewer, disk, "AddItem", <<index, entry>>, TRUE, r.ret,
                              <<>>)

\* the Save button, enabled when there are setlists; ok: the output stream opens
LifecycleSave ==
    /\ Running
    /\ Len(m_setlists) # 0
    /\ \E ok \in BOOLEAN :
           LET r == SaveToFile(Manager, disk, ok)
           IN  PersistBecomes(Manager, viewer, r.file, "SaveToFile", <<>>, ok, r.ret,
                              <<>>)

\* main after its loop: the setlists are saved if there are any, and the
\* viewer is closed; ok: the output stream opens
LifecycleExit ==
    /\ Running
    /\ IF Len(m_setlists) > 0
       THEN \E ok \in BOOLEAN :
                LET r == SaveToFile(Manager, disk, ok)
                IN  PersistBecomes(Manager, Close(viewer), r.file, "Exit", <<>>, ok,
                                   r.ret, <<>>)
       ELSE PersistBecomes(Manager, Close(viewer), disk, "Exit", <<>>, TRUE, FALSE, <<>>)

NextLifecycle ==
    \/ LifecycleStart
    \/ LifecycleCreateSetlist
    \/ LifecycleRemoveSetlist
    \/ LifecycleAddItem
    \/ LifecycleSave
    \/ LifecycleExit

SpecLifecycle == InitLifecycle /\ [][NextLifecycle]_vars

(***************************************************************************)
(* The calls of Spec, the setlists file being any file: one written by     *)
(* hand, cut short or with malformed lines, as well as a saved one.        *)
(***************************************************************************)
CallLoadAnyFile ==
    \E file \in PersistFiles :
        LET r == LoadFromFile(Manager, file)
        IN  Becomes(r.m, viewer, "LoadFromFile", <<file>>, TRUE, r.ret, <<>>)

NextAnyFile ==
    \/ NextState
    \/ CallLoadAnyFile

SpecAnyFile == Init /\ [][NextAnyFile]_vars

(***************************************************************************)
(* Properties.  PreM and PreV are the manager and the viewer before the    *)
(* call that has just returned.                                            *)
(***************************************************************************)
PreM == last.pre.m

PreV == last.pre.v

IndicesUnchanged ==
    /\ m_activeSetlistIndex = PreM.m_activeSetlistIndex
    /\ m_activeItemIndex = PreM.m_activeItemIndex

Attempted(fn) == \E i \in 1..Len(last.calls) : last.calls[i] = fn

\* C1: in every reachable state activeSetlistIndex and activeItemIndex are
\* either both unset (-1) or both set (>= 0).
C1_IndicesSetTogether ==
    \/ m_activeSetlistIndex = -1 /\ m_activeItemIndex = -1
    \/ m_activeSetlistIndex >= 0 /\ m_activeItemIndex >= 0

\* C1 witness: a session ended by RemoveSetlist of the active setlist.
C1_Witness ==
    /\ last.op = "RemoveSetlist"
    /\ last.ret
    /\ PreM.m_activeSetlistIndex = last.args[1]
    /\ PreM.m_activeItemIndex >= 0
    /\ m_activeSetlistIndex = -1

\* C2: after every completed operation, when the manager is active then
\* 0 <= activeItemIndex < item count of the active setlist.
C2_ActiveItemInRange ==
    IsActive(Manager) =>
        /\ HasActiveSetlist(Manager)
        /\ 0 <= m_activeItemIndex
        /\ m_activeItemIndex < GetItemCount(GetActiveSetlist(Manager))

\* C3: ActivateSetlist(i) returns false when i is out of bounds, when setlist
\* i has no items or when loading item 0 fails, and then both active indices
\* equal their values before the call.
C3_ActivateFailureRestores ==
    last.op = "ActivateSetlist" =>
        LET i == last.args[1]
        IN  (\/ i >= Len(PreM.m_setlists)
             \/ GetItemCount(PreM.m_setlists[i + 1]) = 0
             \/ ~last.ok)
            => ~last.ret /\ IndicesUnchanged

\* C3 witness: the load fails while another setlist is active.
C3_Witness ==
    /\ last.op = "ActivateSetlist"
    /\ ~last.ok
    /\ ~last.ret
    /\ IsActive(PreM)
    /\ PreM.m_activeSetlistIndex # last.args[1]
    /\ m_activeSetlistIndex = PreM.m_activeSetlistIndex

\* C4: ActivateSetlist(i) with i in bounds, setlist i not empty and the load
\* of item 0 succeeding returns true and gives Active(i, 0) with the viewer
\* on page 0 of the document at item 0's path, whatever the state before.
C4_ActivateSuccess ==
    last.op = "ActivateSetlist" =>
        LET i == last.args[1]
        IN  (/\ i < Len(PreM.m_setlists)
             /\ GetItemCount(PreM.m_setlists[i + 1]) > 0
             /\ last.ok)
            => /\ last.ret
               /\ m_activeSetlistIndex = i
               /\ m_activeItemIndex = 0
               /\ viewer.m_document = PreM.m_setlists[i + 1].m_items[1].fullPath
               /\ viewer.m_currentPage = 0

\* C4 witness: the same setlist was active at a later item, the viewer past
\* its first page.
C4_Witness ==
    /\ last.op = "ActivateSetlist"
    /\ last.ret
    /\ PreM.m_activeSetlistIndex = last.args[1]
    /\ PreM.m_activeItemIndex > 0
    /\ PreV.m_currentPage > 0
    /\ m_activeItemIndex = 0

\* C5 as claimed: ActivateSetlist on an empty setlist fails and leaves
\* IsActive() false, from any state before.
C5_EmptyLeavesInactive ==
    last.op = "ActivateSetlist" =>
        LET i == last.args[1]
        IN  (i < Len(PreM.m_setlists) /\ GetItemCount(PreM.m_setlists[i + 1]) = 0)
            => ~last.ret /\ ~IsActive(Manager)

\* C5: ActivateSetlist on an empty setlist fails and leaves IsActive() as it
\* was before the call, so false when the manager was Inactive.
C5_EmptyLeavesActiveAsBefore ==
    last.op = "ActivateSetlist" =>
        LET i == last.args[1]
        IN  (i < Len(PreM.m_setlists) /\ GetItemCount(PreM.m_setlists[i + 1]) = 0)
            => ~last.ret /\ (IsActive(Manager) <=> IsActive(PreM))

\* C5 witness: an empty setlist is activated while the manager is Inactive.
C5_Witness ==
    /\ last.op = "ActivateSetlist"
    /\ last.args[1] < Len(PreM.m_setlists)
    /\ GetItemCount(PreM.m_setlists[last.args[1] + 1]) = 0
    /\ ~IsActive(PreM)
    /\ ~last.ret

\* C6: JumpToItem(j, k) returns false when j is no setlist index, when k is no
\* item index of setlist j or when the load of item k fails, the active
\* indices then as before the call; otherwise it returns true and gives
\* Active(j, k) with the viewer on page 0 of item k's document.
C6_JumpToItem ==
    last.op = "JumpToItem" =>
        LET j == last.args[1]
            k == last.args[2]
            valid == j < Len(PreM.m_setlists)
                     /\ k < GetItemCount(PreM.m_setlists[j + 1])
        IN  /\ (~valid \/ ~last.ok) => ~last.ret /\ IndicesUnchanged
            /\ (valid /\ last.ok) =>
                   /\ last.ret
                   /\ m_activeSetlistIndex = j
                   /\ m_activeItemIndex = k
                   /\ viewer.m_document = PreM.m_setlists[j + 1].m_items[k + 1].fullPath
                   /\ viewer.m_currentPage = 0

\* C6 witness: a jump to a later item of another setlist than the active one.
C6_Witness ==
    /\ last.op = "JumpToItem"
    /\ last.ret
    /\ last.args[2] > 0
    /\ IsActive(PreM)
    /\ PreM.m_activeSetlistIndex # last.args[1]
    /\ m_activeItemIndex = last.args[2]

\* the item a call of the manager tried to load: <<setlist index, item index>>
LoadTarget ==
    CASE last.op = "ActivateSetlist" -> <<last.args[1], 0>>
      [] last.op = "JumpToItem" -> <<last.args[1], last.args[2]>>
      [] last.op = "Next" -> <<PreM.m_activeSetlistIndex, PreM.m_activeItemIndex + 1>>
      [] last.op = "Previous" -> <<PreM.m_activeSetlistIndex, PreM.m_activeItemIndex - 1>>

NavigationCalls == {"ActivateSetlist", "JumpToItem", "Next", "Previous"}

\* C7: a failed load inside ActivateSetlist, JumpToItem, Next or Previous is
\* returned as false, and after the call the active indices do not point at
\* the item whose load failed.
C7_NeverAtFailedItem ==
    (last.op \in NavigationCalls /\ ~last.ok) =>
        /\ ~last.ret
        /\ <<m_activeSetlistIndex, m_activeItemIndex>> # LoadTarget

\* C8: when ActivateSetlist, JumpToItem, Next or Previous returns false, the
\* viewer has the same document at the same page as before the call.
C8_FailureKeepsViewer ==
    (last.op \in NavigationCalls /\ ~last.ret) =>
        /\ viewer.m_document = PreV.m_document
        /\ viewer.m_currentPage = PreV.m_currentPage

\* C9: Next and Previous called while the manager is Inactive return false,
\* change neither index and call no mutating operation of the viewer.
C9_InactiveNextPrevious ==
    (last.op \in {"Next", "Previous"} /\ ~IsActive(PreM)) =>
        /\ ~last.ret
        /\ IndicesUnchanged
        /\ last.calls = <<>>
        /\ viewer = PreV

\* C9 witness: Next while Inactive with a document open that has a next page.
C9_Witness ==
    /\ last.op = "Next"
    /\ ~IsActive(PreM)
    /\ IsLoaded(PreV)
    /\ ViewerCanGoNext(PreV)
    /\ ~last.ret

\* C10: with the manager active and a document open that is not on its last
\* (first) page, Next (Previous) returns true, moves the viewer's page by
\* exactly +1 (-1), loads nothing and leaves both active indices unchanged.
C10_PageStepInsideDocument ==
    /\ (/\ last.op = "Next"
        /\ IsActive(PreM)
        /\ IsLoaded(PreV)
        /\ PreV.m_currentPage < PreV.m_pageCount - 1)
       => /\ last.ret
          /\ viewer.m_currentPage = PreV.m_currentPage + 1
          /\ viewer.m_document = PreV.m_document
          /\ ~Attempted("Load")
          /\ IndicesUnchanged
    /\ (/\ last.op = "Previous"
        /\ IsActive(PreM)
        /\ IsLoaded(PreV)
        /\ PreV.m_currentPage > 0)
       => /\ last.ret
          /\ viewer.m_currentPage = PreV.m_currentPage - 1
          /\ viewer.m_document = PreV.m_document
          /\ ~Attempted("Load")
          /\ IndicesUnchanged

\* C10 witness: Next inside the first item while a following item exists.
C10_Witness ==
    /\ last.op = "Next"
    /\ last.ret
    /\ IsActive(PreM)
    /\ IsLoaded(PreV)
    /\ PreM.m_activeItemIndex + 1 < GetItemCount(GetActiveSetlist(PreM))
    /\ viewer.m_currentPage = PreV.m_currentPage + 1

\* the viewer holds the document of the active item of manager m
ShowsActiveItem(m, v) ==
    /\ HasActiveSetlist(m)
    /\ m.m_activeItemIndex >= 0
    /\ m.m_activeItemIndex < GetItemCount(GetActiveSetlist(m))
    /\ IsLoaded(v)
    /\ v.m_document = GetActiveSetlist(m).m_items[m.m_activeItemIndex + 1].fullPath

\* C11: from Active(s, k) with the viewer on the last page of item k's
\* document, k + 1 a valid item index and the load succeeding, Next returns
\* true and gives Active(s, k + 1) with the viewer on page 0 of item k + 1's
\* document.
C11_NextCrossesToNextItem ==
    (/\ last.op = "Next"
     /\ ShowsActiveItem(PreM, PreV)
     /\ PreV.m_currentPage = PreV.m_pageCount - 1
     /\ PreM.m_activeItemIndex + 1 < GetItemCount(GetActiveSetlist(PreM))
     /\ last.ok)
    => /\ last.ret
       /\ m_activeSetlistIndex = PreM.m_activeSetlistIndex
       /\ m_activeItemIndex = PreM.m_activeItemIndex + 1
       /\ viewer.m_document =
              GetActiveSetlist(PreM).m_items[PreM.m_activeItemIndex + 2].fullPath
       /\ viewer.m_currentPage = 0

\* C11 witness: Next on the last page of a document of several pages loads
\* the following item.
C11_Witness ==
    /\ last.op = "Next"
    /\ last.ret
    /\ ShowsActiveItem(PreM, PreV)
    /\ PreV.m_currentPage = PreV.m_pageCount - 1
    /\ PreV.m_currentPage > 0
    /\ Attempted("Load")
    /\ m_activeItemIndex = PreM.m_activeItemIndex + 1

\* C12 as claimed: from Active(s, k), k >= 1, with the viewer on the first
\* page of item k's document and the load of item k - 1 succeeding, Previous
\* returns true and gives Active(s, k - 1) with the viewer's current page
\* equal to pageCount - 1 of item k - 1's document.
C12_PreviousLandsOnLastPage ==
    (/\ last.op = "Previous"
     /\ ShowsActiveItem(PreM, PreV)
     /\ PreM.m_activeItemIndex >= 1
     /\ PreV.m_currentPage = 0
     /\ last.ok)
    => /\ last.ret
       /\ m_activeSetlistIndex = PreM.m_activeSetlistIndex
       /\ m_activeItemIndex = PreM.m_activeItemIndex - 1
       /\ viewer.m_document =
              GetActiveSetlist(PreM).m_items[PreM.m_activeItemIndex].fullPath
       /\ viewer.m_currentPage =
              PageCountOf(GetActiveSetlist(PreM).m_items[PreM.m_activeItemIndex].fullPath) - 1

\* C12: the same, the viewer's current page being pageCount - 1 when item
\* k - 1's document has at least one page and 0 when it has none.
C12_PreviousLandsOnLastPageIfAny ==
    (/\ last.op = "Previous"
     /\ ShowsActiveItem(PreM, PreV)
     /\ PreM.m_activeItemIndex >= 1
     /\ PreV.m_currentPage = 0
     /\ last.ok)
    => LET pageCount ==
               PageCountOf(GetActiveSetlist(PreM).m_items[PreM.m_activeItemIndex].fullPath)
       IN  /\ last.ret
           /\ m_activeSetlistIndex = PreM.m_activeSetlistIndex
           /\ m_activeItemIndex = PreM.m_activeItemIndex - 1
           /\ viewer.m_document =
                  GetActiveSetlist(PreM).m_items[PreM.m_activeItemIndex].fullPath
           /\ viewer.m_pageCount = pageCount
           /\ viewer.m_currentPage = (IF pageCount > 0 THEN pageCount - 1 ELSE 0)

\* C12 witness: Previous from the first page of item 1 lands on the last page
\* of a preceding document of several pages.
C12_Witness ==
    /\ last.op = "Previous"
    /\ last.ret
    /\ ShowsActiveItem(PreM, PreV)
    /\ PreV.m_currentPage = 0
    /\ m_activeItemIndex = PreM.m_activeItemIndex - 1
    /\ viewer.m_currentPage = viewer.m_pageCount - 1
    /\ viewer.m_currentPage > 0

\* C13: after a successful Next from Active(s, k) with the viewer on page p of
\* item k's document, a Previous that follows at once and whose load succeeds
\* returns true and restores Active(s, k) with that document on page p.
C13_PreviousUndoesNext ==
    (/\ last.op = "Previous"
     /\ last.ok
     /\ last.prior.op = "Next"
     /\ last.prior.ret
     /\ ShowsActiveItem(last.prior.pre.m, last.prior.pre.v))
    => /\ last.ret
       /\ m_activeSetlistIndex = last.prior.pre.m.m_activeSetlistIndex
       /\ m_activeItemIndex = last.prior.pre.m.m_activeItemIndex
       /\ viewer.m_document = last.prior.pre.v.m_document
       /\ viewer.m_currentPage = last.prior.pre.v.m_currentPage

\* C13 witness: in the setlist [A (3 pages), B (2 pages)], Next on page 2 of
\* item 0 crossed to item 1 and Previous came back to item 0 page 2.
C13_Witness ==
    /\ last.op = "Previous"
    /\ last.ret
    /\ last.prior.op = "Next"
    /\ last.prior.ret
    /\ Len(m_setlists) = 1
    /\ Len(m_setlists[1].m_items) = 2
    /\ m_setlists[1].m_items[1].fullPath = PathA
    /\ m_setlists[1].m_items[2].fullPath = PathB
    /\ last.prior.pre.m.m_activeItemIndex = 0
    /\ last.prior.pre.v.m_currentPage = 2
    /\ PreM.m_activeItemIndex = 1
    /\ PreV.m_currentPage = 0
    /\ m_activeItemIndex = 0
    /\ viewer.m_currentPage = 2

\* sum of the page counts the viewer reports for the items
RECURSIVE SumPages(_)
SumPages(items) ==
    IF items = <<>>
    THEN 0
    ELSE PageCountOf(items[1].fullPath) + SumPages(Tail(items))

\* the same sum, a document of zero pages counted as one position
RECURSIVE SumPositions(_)
SumPositions(items) ==
    IF items = <<>>
    THEN 0
    ELSE (IF PageCountOf(items[1].fullPath) > 0 THEN PageCountOf(items[1].fullPath) ELSE 1)
         + SumPositions(Tail(items))

\* C14 as claimed: from item 0 page 0 of an active setlist with page counts
\* p0..p(N-1), loads succeeding, exactly sum(p_i) - 1 calls of Next succeed and
\* end on the last page of the last item; the next call returns false and
\* CanGoNext is false.
C14_NextCountIsSumOfPages ==
    (last.op = "Next" /\ last.steps >= 0) =>
        LET items == GetActiveSetlist(Manager).m_items
        IN  /\ last.ret => last.steps <= SumPages(items) - 1
            /\ ~last.ret =>
                   /\ last.steps = SumPages(items) - 1
                   /\ m_activeItemIndex = Len(items) - 1
                   /\ viewer.m_currentPage = viewer.m_pageCount - 1
                   /\ ~CanGoNext(Manager, viewer)

\* C14: the same with sum(max(p_i, 1)) - 1 calls, the end being page 0 of the
\* last item when the viewer reports zero pages for it.
C14_NextCountIsSumOfPositions ==
    (last.op = "Next" /\ last.steps >= 0) =>
        LET items == GetActiveSetlist(Manager).m_items
        IN  /\ last.ret => last.steps <= SumPositions(items) - 1
            /\ ~last.ret =>
                   /\ last.steps = SumPositions(items) - 1
                   /\ m_activeItemIndex = Len(items) - 1
                   /\ viewer.m_document = items[Len(items)].fullPath
                   /\ viewer.m_currentPage =
                          (IF viewer.m_pageCount > 0 THEN viewer.m_pageCount - 1 ELSE 0)
                   /\ ~CanGoNext(Manager, viewer)

\* C14 witness: the setlist [A, B] played to its end, the Next after the
\* fourth one returning false.
C14_Witness ==
    /\ last.op = "Next"
    /\ ~last.ret
    /\ last.steps = 4
    /\ Len(m_setlists[1].m_items) = 2
    /\ m_setlists[1].m_items[1].fullPath = PathA
    /\ m_setlists[1].m_items[2].fullPath = PathB
    /\ m_activeItemIndex = 1
    /\ viewer.m_currentPage = 1

\* C15: CanGoNext is true exactly when the Next that follows returns true, and
\* CanGoPrevious exactly when the Previous that follows returns true, in every
\* reachable state; stated here for the calls whose load, if one is tried,
\* succeeds.
C15_CanGoAgreesWithStep ==
    /\ (last.op = "Next" /\ last.ok) => (last.ret <=> CanGoNext(PreM, PreV))
    /\ (last.op = "Previous" /\ last.ok) => (last.ret <=> CanGoPrevious(PreM, PreV))

\* C16: CanGoNext and CanGoPrevious change nothing: the setlists, both
\* active indices, the viewer's document and its current page are after the
\* call what they were before it, in every state.
C16_CanGoChangesNothing ==
    last.op \in {"CanGoNext", "CanGoPrevious"} =>
        /\ m_setlists = PreM.m_setlists
        /\ IndicesUnchanged
        /\ viewer.m_document = PreV.m_document
        /\ viewer.m_currentPage = PreV.m_currentPage
        /\ last.calls = <<>>

\* C16 witness: CanGoNext answers true in a session whose viewer has a next
\* page, and the viewer is still on the page it was on.
C16_Witness ==
    /\ last.op = "CanGoNext"
    /\ last.ret
    /\ IsActive(PreM)
    /\ ViewerCanGoNext(PreV)
    /\ PreV.m_currentPage > 0
    /\ viewer.m_currentPage = PreV.m_currentPage

\* C17: when Next or Previous crosses to the adjacent item and the load of that
\* item fails, the call returns false and both active indices are what they
\* were before the call.
C17_FailedCrossingRestores ==
    (last.op \in {"Next", "Previous"} /\ Attempted("Load") /\ ~last.ok) =>
        /\ ~last.ret
        /\ IndicesUnchanged

\* C17 witness: Previous from the first page of item 1 fails to load item 0.
C17_Witness ==
    /\ last.op = "Previous"
    /\ Attempted("Load")
    /\ ~last.ok
    /\ ~last.ret
    /\ PreM.m_activeItemIndex = 1
    /\ m_activeItemIndex = 1

\* the viewer's document and page are what they were before the call
ViewerUnchanged ==
    /\ viewer.m_document = PreV.m_document
    /\ viewer.m_currentPage = PreV.m_currentPage

\* C18: on the last page of the last item of the active setlist Next returns
\* false, and on the first page of the first item Previous returns false; no
\* load is tried and the indices, the viewer's document and its page are
\* unchanged.
C18_EndsOfSetlist ==
    /\ (/\ last.op = "Next"
        /\ ShowsActiveItem(PreM, PreV)
        /\ PreM.m_activeItemIndex = GetItemCount(GetActiveSetlist(PreM)) - 1
        /\ PreV.m_currentPage = PreV.m_pageCount - 1)
       => /\ ~last.ret
          /\ ~Attempted("Load")
          /\ IndicesUnchanged
          /\ ViewerUnchanged
    /\ (/\ last.op = "Previous"
        /\ ShowsActiveItem(PreM, PreV)
        /\ PreM.m_activeItemIndex = 0
        /\ PreV.m_currentPage = 0)
       => /\ ~last.ret
          /\ ~Attempted("Load")
          /\ IndicesUnchanged
          /\ ViewerUnchanged

\* C18 witness: Next on the last page of the second and last item.
C18_Witness ==
    /\ last.op = "Next"
    /\ ShowsActiveItem(PreM, PreV)
    /\ PreM.m_activeItemIndex = 1
    /\ GetItemCount(GetActiveSetlist(PreM)) = 2
    /\ PreV.m_currentPage = PreV.m_pageCount - 1
    /\ PreV.m_currentPage > 0
    /\ ~last.ret

\* C19: Deactivate succeeds from any state, leaves both active indices unset
\* and changes neither the viewer's document and page nor the setlists.
C19_DeactivateFrame ==
    last.op = "Deactivate" =>
        /\ m_activeSetlistIndex = -1
        /\ m_activeItemIndex = -1
        /\ ViewerUnchanged
        /\ m_setlists = PreM.m_setlists

\* C19 witness: Deactivate in a session whose viewer is past the first page.
C19_Witness ==
    /\ last.op = "Deactivate"
    /\ IsActive(PreM)
    /\ PreM.m_activeItemIndex >= 0
    /\ IsLoaded(viewer)
    /\ viewer.m_currentPage > 0
    /\ ~IsActive(Manager)

\* C20: RemoveSetlist of the active setlist leaves the manager Inactive and
\* removes that setlist; RemoveSetlist of an index out of range returns false
\* and changes neither the setlists nor the active indices.
C20_RemoveSetlist ==
    last.op = "RemoveSetlist" =>
        LET index == last.args[1]
            before == PreM.m_setlists
        IN  /\ (index < Len(before) /\ index = PreM.m_activeSetlistIndex) =>
                   /\ m_activeSetlistIndex = -1
                   /\ m_activeItemIndex = -1
                   /\ Len(m_setlists) = Len(before) - 1
                   /\ \A i \in 1..Len(m_setlists) :
                          m_setlists[i] = IF i <= index THEN before[i] ELSE before[i + 1]
            /\ index >= Len(before) =>
                   /\ ~last.ret
                   /\ m_setlists = before
                   /\ IndicesUnchanged

\* C20 witness: the first of two different setlists is active and is removed.
C20_Witness ==
    /\ last.op = "RemoveSetlist"
    /\ last.args[1] = 0
    /\ PreM.m_activeSetlistIndex = 0
    /\ Len(PreM.m_setlists) = 2
    /\ PreM.m_setlists[1] # PreM.m_setlists[2]
    /\ m_setlists = <<PreM.m_setlists[2]>>
    /\ ~IsActive(Manager)

\* C21: RemoveSetlist of a setlist that is not the active one keeps the session
\* on the same setlist and item: the active index decreases by exactly 1 when
\* index < activeSetlistIndex and is unchanged when index > activeSetlistIndex,
\* the setlist at the new active index is the active setlist of before, and
\* activeItemIndex is unchanged.
C21_RemoveOtherSetlist ==
    (/\ last.op = "RemoveSetlist"
     /\ HasActiveSetlist(PreM)
     /\ last.args[1] < Len(PreM.m_setlists)
     /\ last.args[1] # PreM.m_activeSetlistIndex)
    => /\ last.args[1] < PreM.m_activeSetlistIndex =>
              m_activeSetlistIndex = PreM.m_activeSetlistIndex - 1
       /\ last.args[1] > PreM.m_activeSetlistIndex =>
              m_activeSetlistIndex = PreM.m_activeSetlistIndex
       /\ HasActiveSetlist(Manager)
       /\ GetActiveSetlist(Manager) = GetActiveSetlist(PreM)
       /\ m_activeItemIndex = PreM.m_activeItemIndex

\* C21 witness: setlist 0 is removed while setlist 1, a different one, is
\* active.
C21_Witness ==
    /\ last.op = "RemoveSetlist"
    /\ last.args[1] = 0
    /\ PreM.m_activeSetlistIndex = 1
    /\ PreM.m_setlists[1] # PreM.m_setlists[2]
    /\ m_activeSetlistIndex = 0
    /\ m_setlists = <<PreM.m_setlists[2]>>

\* the items of setlist 0 before and after the call that has just returned
ItemsBefore == PreM.m_setlists[1].m_items

ItemsAfter == m_setlists[1].m_items

\* the sequence s without its element at zero-based index
Without(s, index) ==
    [j \in 1..(Len(s) - 1) |-> IF j <= index THEN s[j] ELSE s[j + 1]]

\* how many times x occurs in s
Occurrences(s, x) == Cardinality({i \in 1..Len(s) : s[i] = x})

\* C22: MoveItem returns false and changes nothing iff an index is out of
\* bounds; otherwise it returns true, keeps the length and the multiset of
\* items, puts the item of fromIndex exactly at toIndex and keeps the order of
\* all the other items (fromIndex = toIndex changes nothing).
C22_MoveItem ==
    last.op = "MoveItem" =>
        LET fromIndex == last.args[1]
            toIndex == last.args[2]
            n == Len(ItemsBefore)
        IN  /\ ~last.ret <=> (fromIndex >= n \/ toIndex >= n)
            /\ ~last.ret => ItemsAfter = ItemsBefore
            /\ last.ret =>
                   /\ Len(ItemsAfter) = n
                   /\ \A i \in 1..n :
                          Occurrences(ItemsAfter, ItemsBefore[i])
                              = Occurrences(ItemsBefore, ItemsBefore[i])
                   /\ ItemsAfter[toIndex + 1] = ItemsBefore[fromIndex + 1]
                   /\ Without(ItemsAfter, toIndex) = Without(ItemsBefore, fromIndex)
                   /\ fromIndex = toIndex => ItemsAfter = ItemsBefore

\* C22 witness: the first of three different items is moved to the end.
C22_Witness ==
    /\ last.op = "MoveItem"
    /\ last.ret
    /\ last.args = <<0, 2>>
    /\ Len(ItemsBefore) = 3
    /\ ItemsBefore[1] # ItemsBefore[2]
    /\ ItemsBefore[2] # ItemsBefore[3]
    /\ ItemsBefore[1] # ItemsBefore[3]
    /\ ItemsAfter = <<ItemsBefore[2], ItemsBefore[3], ItemsBefore[1]>>

\* C23: AddItem returns false and leaves the items unchanged iff the path is
\* empty; otherwise it returns true and the items are the old ones with
\* (name, path) appended, also when the path is already in the setlist.
C23_AddItem ==
    last.op = "AddItem" =>
        LET entry == last.args[1]
        IN  /\ ~last.ret <=> entry.fullPath = <<>>
            /\ ~last.ret => ItemsAfter = ItemsBefore
            /\ last.ret =>
                   ItemsAfter = ItemsBefore
                       \o <<[name |-> entry.filename, fullPath |-> entry.fullPath]>>

\* C23 witness: a path the setlist already holds is added again.
C23_Witness ==
    /\ last.op = "AddItem"
    /\ last.ret
    /\ \E i \in 1..Len(ItemsBefore) : ItemsBefore[i].fullPath = last.args[1].fullPath
    /\ Len(ItemsAfter) = Len(ItemsBefore) + 1

\* C24: RemoveItem(index) returns false and changes nothing iff index >= item
\* count; otherwise it returns true, the items before index are unchanged and
\* every item after index moves down by one position.
C24_RemoveItem ==
    last.op = "RemoveItem" =>
        LET index == last.args[1]
            n == Len(ItemsBefore)
        IN  /\ ~last.ret <=> index >= n
            /\ ~last.ret => ItemsAfter = ItemsBefore
            /\ last.ret =>
                   /\ Len(ItemsAfter) = n - 1
                   /\ \A i \in 1..index : ItemsAfter[i] = ItemsBefore[i]
                   /\ \A i \in (index + 1)..(n - 1) : ItemsAfter[i] = ItemsBefore[i + 1]

\* C24 witness: the middle one of three different items is removed.
C24_Witness ==
    /\ last.op = "RemoveItem"
    /\ last.ret
    /\ last.args[1] = 1
    /\ Len(ItemsBefore) = 3
    /\ ItemsBefore[1] # ItemsBefore[2]
    /\ ItemsBefore[2] # ItemsBefore[3]
    /\ ItemsAfter = <<ItemsBefore[1], ItemsBefore[3]>>

\* C25: AddItem of an entry with a path, followed by RemoveItem of the last
\* index, gives back the item sequence of before the AddItem.
C25_AddThenRemoveLast ==
    (/\ last.op = "RemoveItem"
     /\ last.prior.op = "AddItem"
     /\ last.prior.ret
     /\ last.args[1] = Len(ItemsBefore) - 1)
    => /\ last.ret
       /\ ItemsAfter = last.prior.pre.m.m_setlists[1].m_items

\* C25 witness: an item is added to a setlist of two items and removed again.
C25_Witness ==
    /\ last.op = "RemoveItem"
    /\ last.ret
    /\ last.prior.op = "AddItem"
    /\ last.prior.ret
    /\ Len(last.prior.pre.m.m_setlists[1].m_items) = 2
    /\ Len(ItemsBefore) = 3
    /\ last.args[1] = 2
    /\ Len(ItemsAfter) = 2

\* the name "Setlist n", for n from 1 to 9
GeneratedName(n) ==
    <<"S", "e", "t", "l", "i", "s", "t", " ",
      <<"1", "2", "3", "4", "5", "6", "7", "8", "9">>[n]>>

\* C26: CreateSetlist(name) appends one empty setlist and returns its index,
\* the count of before; its name is the name given when that is not empty and
\* "Setlist n", n the count of before + 1, when it is empty; the setlists of
\* before and both active indices are unchanged.
C26_CreateSetlist ==
    last.op = "CreateSetlist" =>
        LET name == last.args[1]
            before == PreM.m_setlists
        IN  /\ last.ret = Len(before)
            /\ Len(m_setlists) = Len(before) + 1
            /\ \A i \in 1..Len(before) : m_setlists[i] = before[i]
            /\ m_setlists[Len(before) + 1].m_items = <<>>
            /\ m_setlists[Len(before) + 1].m_name =
                   (IF name # <<>> THEN name ELSE GeneratedName(Len(before) + 1))
            /\ IndicesUnchanged

\* C26 witness: a second setlist is created without a name while the first is
\* active.
C26_Witness ==
    /\ last.op = "CreateSetlist"
    /\ last.args[1] = <<>>
    /\ last.ret = 1
    /\ IsActive(PreM)
    /\ m_setlists[2].m_name = GeneratedName(2)
    /\ IsActive(Manager)

\* the character c occurs in the string
Contains(string, c) == \E i \in 1..Len(string) : string[i] = c

\* no name or path holds a newline and no display name holds a tab
RoundTrips(setlists) ==
    \A i \in 1..Len(setlists) :
        /\ ~Contains(setlists[i].m_name, "\n")
        /\ \A j \in 1..Len(setlists[i].m_items) :
               /\ ~Contains(setlists[i].m_items[j].name, "\n")
               /\ ~Contains(setlists[i].m_items[j].name, "\t")
               /\ ~Contains(setlists[i].m_items[j].fullPath, "\n")

\* C27: for a collection in which no name or path holds a newline and no
\* display name holds a tab, SaveToFile followed by LoadFromFile into a fresh
\* manager gives as many setlists, with the same names (the empty name
\* included) and in each the same display names and paths in the same order.
C27_SaveThenLoad ==
    (/\ last.op = "Start"
     /\ last.prior.op = "SaveToFile"
     /\ last.prior.ret
     /\ RoundTrips(last.prior.pre.m.m_setlists))
    => LET saved == last.prior.pre.m.m_setlists
       IN  /\ last.ret
           /\ Len(m_setlists) = Len(saved)
           /\ \A i \in 1..Len(saved) :
                  /\ m_setlists[i].m_name = saved[i].m_name
                  /\ Len(m_setlists[i].m_items) = Len(saved[i].m_items)
                  /\ \A j \in 1..Len(saved[i].m_items) :
                         /\ m_setlists[i].m_items[j].name = saved[i].m_items[j].name
                         /\ m_setlists[i].m_items[j].fullPath
                                = saved[i].m_items[j].fullPath

\* C27 witness: a setlist without a name and a setlist called ITEM:x with a
\* tab in a path are saved and loaded by the next run.
C27_Witness ==
    /\ last.op = "Start"
    /\ last.ret
    /\ last.prior.op = "SaveToFile"
    /\ last.prior.ret
    /\ Len(m_setlists) = 2
    /\ m_setlists[1].m_name = <<>>
    /\ m_setlists[2].m_items = <<ItemTabPath, ItemPlain>>
    /\ m_setlists = last.prior.pre.m.m_setlists

\* the first line std::getline reads
FirstLine(content) ==
    IF Find(content, "\n") = 0
    THEN content
    ELSE SubSeq(content, 1, Find(content, "\n") - 1)

\* C28: LoadFromFile returns false exactly when the file cannot be opened, is
\* empty or has a first line other than SETLISTS_V1, and then the setlists and
\* both active indices are unchanged.
C28_FailedLoadChangesNothing ==
    last.op = "LoadFromFile" =>
        LET file == last.args[1]
        IN  /\ ~last.ret <=> (\/ ~file.exists
                              \/ file.content = <<>>
                              \/ FirstLine(file.content) # Header)
            /\ ~last.ret => (m_setlists = PreM.m_setlists /\ IndicesUnchanged)

\* C28 witness: during a session a file whose header has a trailing space is
\* loaded.
C28_Witness ==
    /\ last.op = "LoadFromFile"
    /\ last.args[1] = HeaderSpaceFile
    /\ ~last.ret
    /\ IsActive(PreM)
    /\ Len(PreM.m_setlists) = 2
    /\ IsActive(Manager)

\* the lines between the header and the first END line
BodyOf(file) ==
    LET lines == GetLines(file.content)
        ends == {i \in 2..Len(lines) : lines[i] = EndTag}
        stop == IF ends = {} THEN Len(lines) + 1
                ELSE CHOOSE i \in ends : \A j \in ends : i <= j
    IN  SubSeq(lines, 2, stop - 1)

SetlistLines(body) == {i \in 1..Len(body) : StartsWith(body[i], SetlistTag)}

\* the position of i among the elements of S, from 1
RankIn(S, i) == Cardinality({j \in S : j <= i})

\* C29: when LoadFromFile returns true the manager is Inactive and holds only
\* the setlists the file declares, in file order, each named by everything
\* after the SETLIST: prefix, the empty name included.
C29_LoadReplaces ==
    (last.op = "LoadFromFile" /\ last.ret) =>
        LET body == BodyOf(last.args[1])
        IN  /\ ~IsActive(Manager)
            /\ m_activeItemIndex = -1
            /\ Len(m_setlists) = Cardinality(SetlistLines(body))
            /\ \A i \in SetlistLines(body) :
                   m_setlists[RankIn(SetlistLines(body), i)].m_name
                       = SubSeq(body[i], Len(SetlistTag) + 1, Len(body[i]))

\* C29 witness: during a session on two setlists a file that declares a
\* setlist without a name and a setlist called END is loaded.
C29_Witness ==
    /\ last.op = "LoadFromFile"
    /\ last.ret
    /\ last.args[1] = MixedFile
    /\ IsActive(PreM)
    /\ Len(PreM.m_setlists) = 2
    /\ Len(m_setlists) = 2
    /\ m_setlists[1].m_name = <<>>
    /\ m_setlists[2].m_name = EndTag
    /\ ~IsActive(Manager)

\* the lines of the body that follow SETLIST: line i up to the next SETLIST:
\* line
LinesUnder(body, i) ==
    LET later == {j \in SetlistLines(body) : j > i}
        stop == IF later = {} THEN Len(body) + 1
                ELSE CHOOSE j \in later : \A k \in later : j <= k
    IN  (i + 1)..(stop - 1)

\* what follows the ITEM: prefix of a line
Payload(line) == SubSeq(line, Len(ItemTag) + 1, Len(line))

\* an ITEM: line with a tab after the display name and a path after the tab
HasNameAndPath(line) ==
    /\ StartsWith(line, ItemTag)
    /\ Find(Payload(line), "\t") # 0
    /\ Find(Payload(line), "\t") < Len(Payload(line))

\* C30 as claimed: each ITEM: line is attached to the setlist declared last
\* before it; an ITEM: line before any SETLIST: line is ignored, lines that
\* are neither SETLIST:, ITEM: nor END are skipped, the first END line stops
\* the parsing, and a file without END is parsed to its end and loads.
C30_EveryItemLineAttached ==
    last.op = "LoadFromFile" =>
        LET file == last.args[1]
            body == BodyOf(file)
        IN  /\ (file.exists /\ file.content # <<>> /\ FirstLine(file.content) = Header)
                   => last.ret
            /\ last.ret =>
                   /\ Len(m_setlists) = Cardinality(SetlistLines(body))
                   /\ \A i \in SetlistLines(body) :
                          Len(m_setlists[RankIn(SetlistLines(body), i)].m_items)
                              = Cardinality({j \in LinesUnder(body, i) :
                                                StartsWith(body[j], ItemTag)})

\* C30: the same for the ITEM: lines that hold a tab and a path after it, the
\* item being (text before the first tab, text after it); an ITEM: line
\* without a tab or without a path adds no item.
C30_WellFormedItemLinesAttached ==
    last.op = "LoadFromFile" =>
        LET file == last.args[1]
            body == BodyOf(file)
        IN  /\ (file.exists /\ file.content # <<>> /\ FirstLine(file.content) = Header)
                   => last.ret
            /\ last.ret =>
                   /\ Len(m_setlists) = Cardinality(SetlistLines(body))
                   /\ \A i \in SetlistLines(body) :
                          LET items == m_setlists[RankIn(SetlistLines(body), i)].m_items
                              under == {j \in LinesUnder(body, i) : HasNameAndPath(body[j])}
                          IN  /\ Len(items) = Cardinality(under)
                              /\ \A j \in under :
                                     LET rest == Payload(body[j])
                                         tabPos == Find(rest, "\t")
                                     IN  items[RankIn(under, j)] =
                                             [name |-> SubSeq(rest, 1, tabPos - 1),
                                              fullPath |-> SubSeq(rest, tabPos + 1, Len(rest))]

\* C30 witness: a file with an ITEM: line before the first SETLIST: line,
\* unknown lines, and a setlist and an item after its END line is loaded.
C30_Witness ==
    /\ last.op = "LoadFromFile"
    /\ last.ret
    /\ last.args[1] = MixedFile
    /\ m_setlists =
           <<[m_name |-> <<>>,
              m_items |-> <<ItemPlain, [name |-> <<>>, fullPath |-> PathA]>>],
             [m_name |-> EndTag, m_items |-> <<ItemTabPath>>]>>

\* an ITEM: line without a tab, or with nothing after its first tab
Malformed(line) == StartsWith(line, ItemTag) /\ ~HasNameAndPath(line)

\* the file without its malformed ITEM: lines
WithoutMalformed(file) ==
    FileOf(JoinLines(SelectSeq(GetLines(file.content), LAMBDA l : ~Malformed(l))))

\* C31: a malformed ITEM: line (no tab, or no path after the tab) adds no
\* item and does not abort the load: LoadFromFile returns true and gives the
\* setlists and items it gives for the same file without the malformed lines.
C31_MalformedItemLineSkipped ==
    (/\ last.op = "LoadFromFile"
     /\ last.args[1].exists
     /\ FirstLine(last.args[1].content) = Header)
    => LET file == last.args[1]
           body == BodyOf(file)
           r == LoadFromFile(NewManager, WithoutMalformed(file))
       IN  /\ last.ret
           /\ r.ret
           /\ m_setlists = r.m.m_setlists
           /\ TotalItems(m_setlists)
                  = Cardinality({j \in 1..Len(body) :
                                    /\ HasNameAndPath(body[j])
                                    /\ \E i \in SetlistLines(body) : i < j})

\* C31 witness: a file with malformed ITEM: lines before, between and after
\* well-formed SETLIST: and ITEM: lines is loaded.
C31_Witness ==
    /\ last.op = "LoadFromFile"
    /\ last.ret
    /\ last.args[1] = MalformedBetweenFile
    /\ \E l \in {BodyOf(last.args[1])[j] : j \in 1..Len(BodyOf(last.args[1]))} :
           Malformed(l)
    /\ m_setlists =
           <<[m_name |-> <<"a">>, m_items |-> <<ItemPlain>>],
             [m_name |-> <<"b">>,
              m_items |-> <<[name |-> <<"b">>, fullPath |-> <<"q">>]>>]>>

\* the lines a collection is written as, one per setlist and one per item
RECURSIVE ItemLines(_)
ItemLines(items) ==
    IF items = <<>>
    THEN <<>>
    ELSE <<ItemTag \o items[1].name \o <<"\t">> \o items[1].fullPath>>
         \o ItemLines(Tail(items))

RECURSIVE SetlistBlocks(_)
SetlistBlocks(setlists) ==
    IF setlists = <<>>
    THEN <<>>
    ELSE <<SetlistTag \o setlists[1].m_name>> \o ItemLines(setlists[1].m_items)
         \o SetlistBlocks(Tail(setlists))

\* no setlist name, display name or path holds a newline
NoNewline(setlists) ==
    \A i \in 1..Len(setlists) :
        /\ ~Contains(setlists[i].m_name, "\n")
        /\ \A j \in 1..Len(setlists[i].m_items) :
               /\ ~Contains(setlists[i].m_items[j].name, "\n")
               /\ ~Contains(setlists[i].m_items[j].fullPath, "\n")

\* C32 as claimed: after a successful SaveToFile the lines of the file are
\* SETLISTS_V1, then for each setlist one SETLIST: line followed by one ITEM:
\* line per item in order, then END, whatever the file held before; the
\* setlists and the active indices are unchanged.
C32_SaveWritesOneLineEach ==
    (last.op = "SaveToFile" /\ last.ret) =>
        /\ disk.exists
        /\ GetLines(disk.content)
               = <<Header>> \o SetlistBlocks(m_setlists) \o <<EndTag>>
        /\ m_setlists = PreM.m_setlists
        /\ IndicesUnchanged

\* C32: after a successful SaveToFile the file holds SETLISTS_V1, then for
\* each setlist SETLIST: and its name followed by, for each item in order,
\* ITEM:, its display name, a tab and its path, then END, each ended by a
\* newline and nothing else, whatever the file held before; its first line is
\* SETLISTS_V1 and its last line END; these are one line per setlist and per
\* item when no name or path holds a newline; the setlists and the active
\* indices are unchanged.
C32_SaveOverwrites ==
    (last.op = "SaveToFile" /\ last.ret) =>
        LET lines == GetLines(disk.content)
        IN  /\ disk.exists
            /\ disk.content
                   = JoinLines(<<Header>> \o SetlistBlocks(m_setlists) \o <<EndTag>>)
            /\ lines[1] = Header
            /\ lines[Len(lines)] = EndTag
            /\ NoNewline(m_setlists)
                   => lines = <<Header>> \o SetlistBlocks(m_setlists) \o <<EndTag>>
            /\ m_setlists = PreM.m_setlists
            /\ IndicesUnchanged

\* C32 witness: during a session a collection of two setlists with items is
\* saved over a longer file that declares other setlists.
C32_Witness ==
    /\ last.op = "SaveToFile"
    /\ last.ret
    /\ last.pre.file = MixedFile
    /\ disk # MixedFile
    /\ Len(disk.content) < Len(MixedFile.content)
    /\ IsActive(Manager)
    /\ Len(m_setlists) = 2
    /\ m_setlists[1].m_items = <<ItemNoName>>
    /\ m_setlists[2].m_items = <<ItemTabPath, ItemPlain>>

\* the open document and its page count are those of before the call
SameDocument == viewer.m_document = PreV.m_document /\ viewer.m_pageCount = PreV.m_pageCount

\* C33: after any sequence of Load, Close, NextPage, PreviousPage and
\* GoToPage, NextPage adds exactly 1 to the current page when it is below
\* pageCount - 1 and otherwise changes nothing, PreviousPage subtracts exactly
\* 1 when it is above 0 and otherwise changes nothing, GoToPage(n) sets the
\* page to n when 0 <= n < pageCount and otherwise changes nothing, and with a
\* document of at least one page loaded 0 <= currentPage < pageCount.
C33_PageStaysInDocument ==
    /\ last.op = "NextPage" =>
           IF PreV.m_currentPage < PreV.m_pageCount - 1
           THEN viewer.m_currentPage = PreV.m_currentPage + 1 /\ SameDocument
           ELSE viewer = PreV
    /\ last.op = "PreviousPage" =>
           IF PreV.m_currentPage > 0
           THEN viewer.m_currentPage = PreV.m_currentPage - 1 /\ SameDocument
           ELSE viewer = PreV
    /\ last.op = "GoToPage" =>
           IF 0 <= last.args[1] /\ last.args[1] < PreV.m_pageCount
           THEN viewer.m_currentPage = last.args[1] /\ SameDocument
           ELSE viewer = PreV
    /\ (IsLoaded(viewer) /\ viewer.m_pageCount >= 1) =>
           (0 <= viewer.m_currentPage /\ viewer.m_currentPage < viewer.m_pageCount)

\* C33 witness: on the last page of a two-page document GoToPage is given
\* the page count and changes nothing.
C33_Witness ==
    /\ last.op = "GoToPage"
    /\ last.args[1] = 2
    /\ viewer.m_document = PathB
    /\ viewer.m_pageCount = 2
    /\ PreV.m_currentPage = 1
    /\ viewer = PreV

\* C34: a successful Load(path) leaves the viewer loaded with the document at
\* path, on page 0 and with a render requested, whatever document and page it
\* was on before.
C34_LoadReplacesDocument ==
    (last.op = "Load" /\ last.ret) =>
        /\ IsLoaded(viewer)
        /\ viewer.m_document = last.args[1]
        /\ viewer.m_pageCount = PageCountOf(last.args[1])
        /\ viewer.m_currentPage = 0
        /\ viewer.m_needsRender

\* C34 witness: a two-page document is loaded while the viewer shows the
\* last page of a three-page document, rendered.
C34_Witness ==
    /\ last.op = "Load"
    /\ last.ret
    /\ last.args[1] = PathB
    /\ PreV.m_document = PathA
    /\ PreV.m_currentPage = 2
    /\ ~PreV.m_needsRender
    /\ viewer.m_document = PathB
    /\ viewer.m_currentPage = 0

\* C35: with the manager the only caller that loads documents, whenever the
\* manager is active and the viewer has a document loaded, that document is
\* the file at the path of item activeItemIndex of the active setlist.  The
\* states in which the active setlist has no item activeItemIndex are left
\* out.
C35_LoadedIsActiveItem ==
    (/\ IsActive(Manager)
     /\ IsLoaded(viewer)
     /\ HasActiveSetlist(Manager)
     /\ m_activeItemIndex >= 0
     /\ m_activeItemIndex < GetItemCount(GetActiveSetlist(Manager)))
    => viewer.m_document
           = GetActiveSetlist(Manager).m_items[m_activeItemIndex + 1].fullPath

\* C36: after any sequence of calls, IsActive() is true exactly when
\* GetActiveSetlist() is not null: an active manager's activeSetlistIndex is
\* smaller than the number of setlists.
C36_ActiveSetlistExists ==
    /\ IsActive(Manager) => m_activeSetlistIndex < Len(m_setlists)
    /\ IsActive(Manager) <=> HasActiveSetlist(Manager)

\* C36 witness: the manager is active on the last of two setlists when the
\* first one is removed, and stays active on the setlist that is left.
C36_Witness ==
    /\ last.op = "RemoveSetlist"
    /\ last.args[1] = 0
    /\ last.ret
    /\ PreM.m_activeSetlistIndex = 1
    /\ Len(PreM.m_setlists) = 2
    /\ IsActive(Manager)
    /\ m_activeSetlistIndex = 0
    /\ Len(m_setlists) = 1

\* the run of Previous has ended: Previous returned false on item 0, page 0
PreviousRunEnded ==
    /\ last.run = "Previous"
    /\ last.op = "Previous"
    /\ ~last.ret
    /\ m_activeItemIndex = 0
    /\ ShowsActiveItem(Manager, viewer)
    /\ viewer.m_currentPage = 0

\* Next returned false on the last item
NextRunOnLastItem ==
    /\ last.run = "Next"
    /\ last.op = "Next"
    /\ ~last.ret
    /\ m_activeItemIndex = GetItemCount(m_setlists[1]) - 1
    /\ ShowsActiveItem(Manager, viewer)

\* the calls of a run that return true are fewer than the positions of the
\* setlist
RunIsBounded == last.steps < SumPositions(m_setlists[1].m_items)

C38_NoItemWithoutPath ==
    \A i \in 1..Len(m_setlists) :
        \A j \in 1..Len(m_setlists[i].m_items) :
            m_setlists[i].m_items[j].fullPath # <<>>

\* C38 witness: a file with ITEM: lines without a path has been loaded, one
\* item made of it, and AddItem is given an entry without a path.
C38_Witness ==
    /\ last.op = "AddItem"
    /\ last.args[2] = EmptyEntry
    /\ ~last.ret
    /\ PreM.m_setlists = LoadFromFile(NewManager, MalformedItemFile).m.m_setlists
    /\ m_setlists = <<[m_name |-> <<"a">>, m_items |-> <<ItemPlain>>]>>

\* C39: JumpToItem(j, k) needs no active session: called on an inactive
\* manager with j a setlist index and k an item index of setlist j, it returns
\* true and gives Active(j, k) when the load succeeds, and returns false and
\* leaves the manager inactive when the load fails.
C39_JumpFromInactive ==
    (/\ last.op = "JumpToItem"
     /\ ~IsActive(PreM)
     /\ last.args[1] < Len(PreM.m_setlists)
     /\ last.args[2] < GetItemCount(PreM.m_setlists[last.args[1] + 1]))
    => IF last.ok
       THEN /\ last.ret
            /\ IsActive(Manager)
            /\ m_activeSetlistIndex = last.args[1]
            /\ m_activeItemIndex = last.args[2]
       ELSE /\ ~last.ret
            /\ ~IsActive(Manager)
            /\ m_activeItemIndex = -1

\* C39 witness: with no setlist active, a jump to the second item of a
\* setlist succeeds.
C39_Witness ==
    /\ last.op = "JumpToItem"
    /\ ~IsActive(PreM)
    /\ last.args = <<0, 1>>
    /\ last.ok
    /\ last.ret
    /\ m_activeSetlistIndex = 0
    /\ m_activeItemIndex = 1
    /\ ShowsActiveItem(Manager, viewer)

\* C40: the collection loaded at a startup equals the collection the manager
\* held when the run before it shut down, also when that collection was
\* empty and the file of an earlier run exists.  The runs whose save on exit
\* could not open the file are left out.
C40_StartupFollowsShutdown ==
    (last.op = "Start" /\ last.prior.op = "Exit" /\ last.prior.ok)
        => m_setlists = last.prior.pre.m.m_setlists

====
